---------------------------- MODULE Spec2Model ----------------------------
(***************************************************************************)
(* Model of the date-filling and validation pipeline of the CBR / MOEX     *)
(* extraction CLI: the two densifiers (CBRClient._parse_xml_response,      *)
(* MoexClient._parse_payload), the two validators (validate_records,   *)
(* validate_candles) and the two pipelines of the CLI (_run_cbr,           *)
(* _run_moex_lqdt under main).                                             *)
(*                                                                         *)
(* Calendar dates are day ordinals (integers); date + timedelta(days=i)    *)
(* is integer addition.  A Python value that a record field can hold is a  *)
(* record [k, n]: None, a finite float (n, in scaled units), NaN, +inf,    *)
(* -inf, a string that float() parses (n is the number it spells) and a    *)
(* string that float() refuses.                                            *)
(***************************************************************************)
EXTENDS Integers, Sequences, FiniteSets, TLC

VARIABLES
    pc,             \* position of the modelled call
    callee,         \* the function under way
    period_start,   \* its start_date / period_start argument
    period_end,     \* its end_date / period_end argument
    records,        \* the record list (densifier output, callee input)
    result,         \* the (is_valid, error_message) pair a callee returned
    payload,        \* what the upstream response is, apart from its rows
    api_records,    \* the adapter's dict (api_records / records_by_date)
    upstream,       \* history: date -> the raw cells of the row stored for it
    taken,          \* how many of the rows kept in the payload the loop took
    error,          \* the exception the adapter raised
    warning,        \* the logger.warning record of the last parse step
    today,          \* the process clock: what date.today() returns
    command,        \* args.command or "cbr"
    dates,          \* dates = get_last_7_days() of the run
    calls,          \* history: the calls the run made, with their arguments
    log,            \* the logger.error records of the run
    stderr,         \* the messages printed to sys.stderr
    files,          \* the files the sink wrote
    exit_code       \* what main returned: <<>> until it returns

\* the state of a run of main
runVars == <<today, command, dates, calls, log, stderr, files, exit_code>>

vars == <<pc, callee, period_start, period_end, records, result,
          payload, api_records, upstream, taken, error, warning, runVars>>

----------------------------------------------------------------------------
(* Bounds of the model *)

\* first day of every period (a day ordinal)
Day0 == 10
\* dates of the inputs reach this many days outside the period
MaxShift == 1
\* finite numbers of the inputs are -MaxNum .. MaxNum
MaxNum == 1
\* validate_records is called with periods of 7 - Slack .. 7 + Slack days
Slack == 1
\* validate_candles is called with ranges of 0 .. MaxSpan days
MaxSpan == 3
\* the densifiers are called with ranges of 1 .. MaxDays days
MaxDays == 2
\* the clock moves to the next day at most MaxTicks times during a run
MaxTicks == 1

----------------------------------------------------------------------------
(* Python values *)

None == [k |-> "None", n |-> 0]
NaN == [k |-> "nan", n |-> 0]
PosInf == [k |-> "inf", n |-> 0]
NegInf == [k |-> "-inf", n |-> 0]
Num(x) == [k |-> "num", n |-> x]
\* strings: a decimal with a point, a decimal with a comma, "nan", "inf"
\* and a text that spells no number
Str(x) == [k |-> "str", n |-> x]
StrComma(x) == [k |-> "str,", n |-> x]
StrNaN == [k |-> "strnan", n |-> 0]
StrInf == [k |-> "strinf", n |-> 0]
StrBad == [k |-> "strbad", n |-> 0]

Nums == {Num(x) : x \in -MaxNum .. MaxNum}
Floats == Nums \cup {NaN, PosInf, NegInf}
Values == Floats \cup {None, Str(1), StrBad}

\* isinstance(v, (int, float))
IsIntOrFloat(v) == v.k \in {"num", "nan", "inf", "-inf"}

\* float(v): the float, or a raised TypeError / ValueError
Raised == [k |-> "raised", n |-> 0]
float(v) ==
    CASE IsIntOrFloat(v) -> v
      [] v.k = "str" -> Num(v.n)
      [] v.k = "strnan" -> NaN
      [] v.k = "strinf" -> PosInf
      [] OTHER -> Raised

\* text.replace(',', '.')
replace_comma(text) == IF text.k = "str," THEN Str(text.n) ELSE text

\* x > 0, x >= 0, x < 0 on floats (every comparison with NaN is False)
GtZero(x) == (x.k = "num" /\ x.n > 0) \/ x.k = "inf"
GeZero(x) == (x.k = "num" /\ x.n >= 0) \/ x.k = "inf"
LtZero(x) == (x.k = "num" /\ x.n < 0) \/ x.k = "-inf"
isnan(x) == x.k = "nan"

----------------------------------------------------------------------------
(* Text.  Messages are TLA+ strings.  A letter of the Russian messages is   *)
(* written as ^ followed by one ASCII character: the 32 letters U+0430 ..   *)
(* U+044F are, in this order,                                               *)
(*     a b v g d e j z i y k l m n o p r s t u f h c 4 w 5 6 7 9 3 8 0      *)
(* and a capital letter is ^ followed by the capital of its character, so   *)
(* that distinct texts stay distinct, one text is a substring of another    *)
(* exactly when it was one before, and lower() is lower() of the            *)
(* characters.                                                              *)

Upper == "ABCDEFGHIJKLMNOPQRSTUVWXYZ"
Lower == "abcdefghijklmnopqrstuvwxyz"

LowerChar(c) ==
    IF \E i \in 1 .. Len(Upper) : SubSeq(Upper, i, i) = c
    THEN LET i == CHOOSE j \in 1 .. Len(Upper) : SubSeq(Upper, j, j) = c
         IN  SubSeq(Lower, i, i)
    ELSE c

\* str.lower()
RECURSIVE lower(_)
lower(s) ==
    IF Len(s) = 0 THEN ""
    ELSE IF Len(s) = 1 THEN LowerChar(s)
    ELSE LET half == Len(s) \div 2
         IN  lower(SubSeq(s, 1, half)) \o lower(SubSeq(s, half + 1, Len(s)))

\* keyword in text
in(keyword, text) ==
    \E i \in 1 .. (Len(text) - Len(keyword) + 1) :
        SubSeq(text, i, i + Len(keyword) - 1) = keyword

\* str(value) of a cell of the payload
str(v) ==
    CASE v.k = "num" -> ToString(v.n)
      [] v.k = "str" -> ToString(v.n) \o ".0"
      [] v.k = "str," -> ToString(v.n) \o ",0"
      [] v.k \in {"nan", "strnan"} -> "nan"
      [] v.k \in {"inf", "strinf"} -> "inf"
      [] v.k = "-inf" -> "-inf"
      [] v.k = "None" -> "None"
      [] v.k = "strbad" -> "n/a"
      [] v.k = "iso" -> "<" \o ToString(v.n) \o "> " \o v.time
      [] v.k = "dmy" -> "<" \o ToString(v.n) \o ">"

----------------------------------------------------------------------------
(* Records and validation results *)

RUB_USD == "RUB/USD"
LQDT == "LQDT"
TQTF == "TQTF"
FieldNames == <<"open", "high", "low", "close", "volume">>

ExchangeRateRecord(d, v, cp) ==
    [date |-> d, exchange_rate_value |-> v, currency_pair |-> cp]

CandleRecord(d, o, h, l, c, vol, ins, b) ==
    [date |-> d, open |-> o, high |-> h, low |-> l, close |-> c,
     volume |-> vol, instrument |-> ins, board |-> b]

\* a formatted message: the text and what the f-string interpolates into it
Reason(msg) ==
    [msg |-> msg, dates |-> <<>>, value |-> None, name |-> "",
     counts |-> <<>>, missing |-> {}]
NoReason == Reason("<None>")

Ok == [ok |-> TRUE, reason |-> NoReason]
Fail(reason) == [ok |-> FALSE, reason |-> reason]
NoResult == [ok |-> FALSE, reason |-> Reason("<not called>")]

\* an exception: its class, its message and the class of its __cause__
Exception(exc, msg) == [exc |-> exc, msg |-> msg, cause |-> ""]
\* raise exc(msg) from e
RaiseFrom(exc, msg, e) == [exc |-> exc, msg |-> msg, cause |-> e.exc]
NoError == Exception("", "")

\* a logger.warning record: the text and what the f-string interpolates
Warning(msg, ds, text) == [msg |-> msg, dates |-> ds, text |-> text]
NoWarning == Warning("", <<>>, None)

\* no run of main is under way
NoRun ==
    /\ today = Day0
    /\ command = ""
    /\ dates = <<>>
    /\ calls = <<>>
    /\ log = {}
    /\ stderr = {}
    /\ files = {}
    /\ exit_code = <<>>


----------------------------------------------------------------------------
(* src/utils/validators.py *)

\* validate_date accepting the day after the end
validate_date_day_after(date_value, start, end) ==
    start <= date_value /\ date_value <= end + 1

validate_date(date_value, start, end) ==
    start <= date_value /\ date_value <= end

\* validate_rate comparing with >= instead of >
validate_rate_ge(rate) ==
    IF rate = None THEN TRUE
    ELSE IF ~IsIntOrFloat(rate) THEN FALSE
    ELSE IF float(rate) = Raised THEN FALSE
    ELSE GeZero(float(rate))

validate_rate(rate) ==
    IF rate = None THEN TRUE
    ELSE IF ~IsIntOrFloat(rate) THEN FALSE
    ELSE IF float(rate) = Raised THEN FALSE
    ELSE GtZero(float(rate))

\* RecordChecks with the pair checked before the rate
RecordChecksPairFirst(record, dates_seen, start, end) ==
    IF ~validate_date(record.date, start, end)
    THEN Fail([Reason("Date {} is outside the expected period [{}, {}]")
                 EXCEPT !.dates = <<record.date, start, end>>])
    ELSE IF record.date \in dates_seen
    THEN Fail([Reason("Duplicate date found: {}")
                 EXCEPT !.dates = <<record.date>>])
    ELSE IF record.currency_pair # RUB_USD
    THEN Fail([Reason("Invalid currency pair: {}, expected RUB/USD")
                 EXCEPT !.name = record.currency_pair])
    ELSE IF ~validate_rate(record.exchange_rate_value)
    THEN Fail([Reason("Invalid exchange rate value for date {}: {}")
                 EXCEPT !.dates = <<record.date>>,
                        !.value = record.exchange_rate_value])
    ELSE Ok

\* the body of validate_records' for loop for one record: the result it
\* returns, or Ok when the loop goes on to the next record
RecordChecks(record, dates_seen, start, end) ==
    IF ~validate_date(record.date, start, end)
    THEN Fail([Reason("Date {} is outside the expected period [{}, {}]")
                 EXCEPT !.dates = <<record.date, start, end>>])
    ELSE IF record.date \in dates_seen
    THEN Fail([Reason("Duplicate date found: {}")
                 EXCEPT !.dates = <<record.date>>])
    ELSE IF ~validate_rate(record.exchange_rate_value)
    THEN Fail([Reason("Invalid exchange rate value for date {}: {}")
                 EXCEPT !.dates = <<record.date>>,
                        !.value = record.exchange_rate_value])
    ELSE IF record.currency_pair # RUB_USD
    THEN Fail([Reason("Invalid currency pair: {}, expected RUB/USD")
                 EXCEPT !.name = record.currency_pair])
    ELSE Ok

\* validate_records' for loop refusing a record dated before the one it
\* follows
RECURSIVE RecordsLoopAscending(_, _, _, _, _)
RecordsLoopAscending(recs, i, dates_seen, start, end) ==
    IF i > Len(recs)
    THEN [returned |-> FALSE, value |-> Ok, dates_seen |-> dates_seen]
    ELSE LET r == IF i > 1 /\ recs[i].date < recs[i - 1].date
                  THEN Fail(Reason("Records are not in ascending order"))
                  ELSE RecordChecks(recs[i], dates_seen, start, end)
         IN  IF ~r.ok
             THEN [returned |-> TRUE, value |-> r, dates_seen |-> dates_seen]
             ELSE RecordsLoopAscending(recs, i + 1,
                                       dates_seen \cup {recs[i].date},
                                       start, end)

\* validate_records' for loop from record i on: what it returned, if it
\* returned, and dates_seen at its end
RECURSIVE RecordsLoop(_, _, _, _, _)
RecordsLoop(recs, i, dates_seen, start, end) ==
    IF i > Len(recs)
    THEN [returned |-> FALSE, value |-> Ok, dates_seen |-> dates_seen]
    ELSE LET r == RecordChecks(recs[i], dates_seen, start, end)
         IN  IF ~r.ok
             THEN [returned |-> TRUE, value |-> r, dates_seen |-> dates_seen]
             ELSE RecordsLoop(recs, i + 1, dates_seen \cup {recs[i].date},
                              start, end)

\* validate_records without the final comparison with expected_dates
validate_records_no_expected(recs, start, end) ==
    IF Len(recs) # 7
    THEN Fail([Reason("Expected 7 records, got {}")
                 EXCEPT !.counts = <<Len(recs)>>])
    ELSE LET loop == RecordsLoop(recs, 1, {}, start, end)
         IN  IF loop.returned THEN loop.value ELSE Ok

validate_records(recs, start, end) ==
    IF Len(recs) # 7
    THEN Fail([Reason("Expected 7 records, got {}")
                 EXCEPT !.counts = <<Len(recs)>>])
    ELSE LET loop == RecordsLoop(recs, 1, {}, start, end)
             expected_dates == {start + i : i \in 0 .. 6}
         IN  IF loop.returned THEN loop.value
             ELSE IF loop.dates_seen # expected_dates
             THEN Fail([Reason("Missing dates in records: {}")
                          EXCEPT !.missing = expected_dates \ loop.dates_seen])
             ELSE Ok

_is_non_negative_number(value) ==
    LET numeric == float(value)
    IN  IF numeric = Raised THEN FALSE
        ELSE IF isnan(numeric) THEN FALSE
        ELSE GeZero(numeric)

\* FieldChecks naming the first field of the tuple whichever field fails
RECURSIVE FieldChecksFirstName(_, _)
FieldChecksFirstName(record, f) ==
    IF f > Len(FieldNames) THEN Ok
    ELSE LET value == record[FieldNames[f]]
         IN  IF value = None THEN FieldChecksFirstName(record, f + 1)
             ELSE IF ~_is_non_negative_number(value)
             THEN Fail([Reason("Invalid {} value for date {}: {}")
                          EXCEPT !.name = FieldNames[1],
                                 !.dates = <<record.date>>,
                                 !.value = value])
             ELSE FieldChecksFirstName(record, f + 1)

\* validate_candles' inner loop over ("open", ..., "volume") from field f on
RECURSIVE FieldChecks(_, _)
FieldChecks(record, f) ==
    IF f > Len(FieldNames) THEN Ok
    ELSE LET field_name == FieldNames[f]
             value == record[field_name]
         IN  IF value = None THEN FieldChecks(record, f + 1)
             ELSE IF ~_is_non_negative_number(value)
             THEN Fail([Reason("Invalid {} value for date {}: {}")
                          EXCEPT !.name = field_name,
                                 !.dates = <<record.date>>,
                                 !.value = value])
             ELSE FieldChecks(record, f + 1)

\* CandleChecks without the comparison of the board
CandleChecksNoBoard(record, dates_seen, start, end) ==
    IF ~validate_date(record.date, start, end)
    THEN Fail([Reason("Date {} is outside the expected period [{}, {}]")
                 EXCEPT !.dates = <<record.date, start, end>>])
    ELSE IF record.date \in dates_seen
    THEN Fail([Reason("Duplicate date found: {}")
                 EXCEPT !.dates = <<record.date>>])
    ELSE IF record.instrument # LQDT
    THEN Fail([Reason("Invalid instrument: {}")
                 EXCEPT !.name = record.instrument])
    ELSE FieldChecks(record, 1)

\* the body of validate_candles' for loop for one record
CandleChecks(record, dates_seen, start, end) ==
    IF ~validate_date(record.date, start, end)
    THEN Fail([Reason("Date {} is outside the expected period [{}, {}]")
                 EXCEPT !.dates = <<record.date, start, end>>])
    ELSE IF record.date \in dates_seen
    THEN Fail([Reason("Duplicate date found: {}")
                 EXCEPT !.dates = <<record.date>>])
    ELSE IF record.instrument # LQDT
    THEN Fail([Reason("Invalid instrument: {}")
                 EXCEPT !.name = record.instrument])
    ELSE IF record.board # TQTF
    THEN Fail([Reason("Invalid board: {}") EXCEPT !.name = record.board])
    ELSE FieldChecks(record, 1)

\* validate_candles' for loop returning for the last record that fails
RECURSIVE CandlesLoopLast(_, _, _, _, _)
CandlesLoopLast(recs, i, dates_seen, start, end) ==
    IF i > Len(recs)
    THEN [returned |-> FALSE, value |-> Ok, dates_seen |-> dates_seen]
    ELSE LET r == CandleChecks(recs[i], dates_seen, start, end)
             rest == CandlesLoopLast(recs, i + 1,
                                     dates_seen \cup {recs[i].date},
                                     start, end)
         IN  IF rest.returned \/ r.ok THEN rest
             ELSE [returned |-> TRUE, value |-> r, dates_seen |-> dates_seen]

\* validate_candles' for loop from record i on: what it returned, if it
\* returned, and dates_seen at its end
RECURSIVE CandlesLoop(_, _, _, _, _)
CandlesLoop(recs, i, dates_seen, start, end) ==
    IF i > Len(recs)
    THEN [returned |-> FALSE, value |-> Ok, dates_seen |-> dates_seen]
    ELSE LET r == CandleChecks(recs[i], dates_seen, start, end)
         IN  IF ~r.ok
             THEN [returned |-> TRUE, value |-> r, dates_seen |-> dates_seen]
             ELSE CandlesLoop(recs, i + 1, dates_seen \cup {recs[i].date},
                              start, end)

\* validate_candles expecting 7 records whatever the span
validate_candles_seven(recs, start, end) ==
    IF start > end THEN Fail(Reason("Start date is after end date"))
    ELSE LET expected_days == 7
         IN  IF Len(recs) # expected_days
             THEN Fail([Reason("Expected {} records, got {}")
                          EXCEPT !.counts = <<expected_days, Len(recs)>>])
             ELSE LET loop == CandlesLoop(recs, 1, {}, start, end)
                      expected_dates ==
                          {start + i : i \in 0 .. expected_days - 1}
                  IN  IF loop.returned THEN loop.value
                      ELSE IF loop.dates_seen # expected_dates
                      THEN Fail([Reason("Missing dates in records: {}")
                                   EXCEPT !.missing =
                                       expected_dates \ loop.dates_seen])
                      ELSE Ok

validate_candles(recs, start, end) ==
    IF start > end THEN Fail(Reason("Start date is after end date"))
    ELSE LET expected_days == (end - start) + 1
         IN  IF Len(recs) # expected_days
             THEN Fail([Reason("Expected {} records, got {}")
                          EXCEPT !.counts = <<expected_days, Len(recs)>>])
             ELSE LET loop == CandlesLoop(recs, 1, {}, start, end)
                      expected_dates ==
                          {start + i : i \in 0 .. expected_days - 1}
                  IN  IF loop.returned THEN loop.value
                      ELSE IF loop.dates_seen # expected_dates
                      THEN Fail([Reason("Missing dates in records: {}")
                                   EXCEPT !.missing =
                                       expected_dates \ loop.dates_seen])
                      ELSE Ok


----------------------------------------------------------------------------
(* Calls of the validators.  The argument is a dense, valid record list of *)
(* the period in which up to two faults have been planted: both validators *)
(* are public functions and take any list.                                  *)

NoPayload == [k |-> "none"]

\* the record list a densifier returns for [start, end] when the upstream
\* has data for every other day
RECURSIVE BaseRecords(_, _, _)
BaseRecords(v, start, end) ==
    IF start > end THEN <<>>
    ELSE LET present == IF (end - start) % 2 = 0 THEN Num(1) ELSE None
         IN  Append(BaseRecords(v, start, end - 1),
                    IF v = "validate_records"
                    THEN ExchangeRateRecord(end, present, RUB_USD)
                    ELSE CandleRecord(end, present, present, present, present,
                                      present, LQDT, TQTF))

InputDates == (period_start - MaxShift) .. (period_end + MaxShift)
ValueFields ==
    IF callee = "validate_records" THEN {"exchange_rate_value"}
    ELSE {FieldNames[f] : f \in 1 .. Len(FieldNames)}
TagFields ==
    IF callee = "validate_records" THEN {"currency_pair"}
    ELSE {"instrument", "board"}
TagValues(f) ==
    CASE f = "currency_pair" -> {RUB_USD, "EUR/RUB"}
      [] f = "instrument" -> {LQDT, "SBMM"}
      [] f = "board" -> {TQTF, "TQBR"}

InitValidate ==
    /\ pc = "clean"
    /\ callee \in {"validate_records", "validate_candles"}
    /\ period_start = Day0
    /\ period_end \in
         IF callee = "validate_records"
         THEN {Day0 + 6 + k : k \in -Slack .. Slack}
         ELSE {Day0 + n - 1 : n \in 0 .. MaxSpan}
    /\ records = BaseRecords(callee, period_start, period_end)
    /\ result = NoResult
    /\ payload = NoPayload
    /\ api_records = <<>>
    /\ upstream = <<>>
    /\ taken = 0
    /\ error = NoError
    /\ warning = NoWarning
    /\ NoRun

Planted(recs) ==
    /\ pc \in {"clean", "one"}
    /\ recs # records
    /\ records' = recs
    /\ pc' = IF pc = "clean" THEN "one" ELSE "two"
    /\ UNCHANGED <<callee, period_start, period_end, result, payload,
                   api_records, upstream, taken, error>>
    /\ UNCHANGED <<warning, runVars>>

SetDate ==
    \E i \in DOMAIN records, d \in InputDates :
        Planted([records EXCEPT ![i].date = d])

SetValue ==
    \E i \in DOMAIN records, f \in ValueFields, v \in Values :
        Planted([records EXCEPT ![i][f] = v])

SetTag ==
    \E i \in DOMAIN records, f \in TagFields :
        \E t \in TagValues(f) :
            Planted([records EXCEPT ![i][f] = t])

Drop ==
    \E i \in DOMAIN records :
        Planted(SubSeq(records, 1, i - 1)
                \o SubSeq(records, i + 1, Len(records)))

Extend ==
    \E d \in InputDates :
        Planted(Append(records,
                       BaseRecords(callee, d, d)[1]))

Swap ==
    \E i \in DOMAIN records :
        /\ i < Len(records)
        /\ Planted([records EXCEPT ![i] = records[i + 1],
                                   ![i + 1] = records[i]])

Validate ==
    /\ pc \in {"clean", "one", "two"}
    /\ result' = IF callee = "validate_records"
                 THEN validate_records(records, period_start, period_end)
                 ELSE validate_candles(records, period_start, period_end)
    /\ pc' = "validated"
    /\ UNCHANGED <<callee, period_start, period_end, records, payload,
                   api_records, upstream, taken, error>>
    /\ UNCHANGED <<warning, runVars>>

NextValidate ==
    \/ SetDate \/ SetValue \/ SetTag \/ Drop \/ Extend \/ Swap
    \/ Validate

SpecValidate == InitValidate /\ [][NextValidate]_vars


----------------------------------------------------------------------------
(* src/services/cbr_client.py, src/services/moex_client.py: the densifiers. *)
(* The parse loop takes one upstream row per step.  Where the payload does  *)
(* not keep its rows they are inputs of the steps; `upstream` remembers,    *)
(* for each date, the raw cells of the row the loop stored for it.          *)

\* dict.get(key, 0.0)
get_zero(dict, key) == IF key \in DOMAIN dict THEN dict[key] ELSE Num(0)

\* dict.get(key): None when the key is missing
get(dict, key) == IF key \in DOMAIN dict THEN dict[key] ELSE None
\* dict.setdefault(key, value)
setdefault(dict, key, value) == dict @@ (key :> value)

\* dict[key] = value
put(dict, key, value) == (key :> value) @@ dict

CBR_PARSE == "CBRClient._parse_xml_response"
MOEX_PARSE == "MoexClient._parse_payload"
EXPECTED_BOARD == TQTF
\* an INSTRUMENT other than the one the validator expects
INSTRUMENT_SBMM == "SBMM"
INSTRUMENT == LQDT
required_columns == {"open", "high", "low", "close", "volume", "begin"}
\* the col at which for col in required_columns stops
FirstMissing(columns) ==
    LET order == <<"open", "high", "low", "close", "volume", "begin">>
        i == CHOOSE j \in 1 .. Len(order) :
                 /\ order[j] \notin columns
                 /\ \A k \in 1 .. j - 1 : order[k] \in columns
    IN  order[i]

\* a Date attribute "DD.MM.YYYY" and a begin cell "YYYY-MM-DD hh:mm:ss" of
\* day d
DateAttr(d) == [k |-> "dmy", n |-> d]
Begin(d, t) == [k |-> "iso", n |-> d, time |-> t]

\* date(int(year), int(month), int(day)) of date_str.split('.'): the date,
\* or ok = FALSE for the ValueError
date_of_dmy(date_str) ==
    IF date_str.k = "dmy" THEN [ok |-> TRUE, date |-> date_str.n]
    ELSE [ok |-> FALSE, date |-> 0]
\* datetime.fromisoformat(begin_str).date()
date_of_iso(begin_str) ==
    IF begin_str.k = "iso" THEN [ok |-> TRUE, date |-> begin_str.n]
    ELSE [ok |-> FALSE, date |-> 0]

\* CbrRecord storing 0.0 for a Value that float() refuses
CbrRecordZero(api, row) ==
    LET skipped(w) == [api |-> api, stored |-> FALSE, warning |-> w]
    IN  IF row.Date = None THEN skipped(NoWarning)
        ELSE LET record_date == date_of_dmy(row.Date)
             IN  IF ~record_date.ok
                 THEN skipped(Warning(
                          "Invalid date format in API response: {}, skipping",
                          <<>>, row.Date))
                 ELSE IF row.Value = None
                 THEN skipped(Warning(
                          "No Value element for date {}, skipping",
                          <<record_date.date>>, None))
                 ELSE LET rate == float(replace_comma(row.Value))
                      IN  IF rate = Raised
                          THEN [api |-> put(api, record_date.date, Num(0)),
                                stored |-> FALSE,
                                warning |-> Warning(
                                   "Invalid rate value for date {}: {}, skipping",
                                   <<record_date.date>>, row.Value)]
                          ELSE [api |-> put(api, record_date.date, rate),
                                stored |-> TRUE, warning |-> NoWarning]

\* one <Record> of the CBR response: the api_records after it, whether the
\* record was stored, and the warning logged for it
CbrRecord(api, row) ==
    LET skipped(w) == [api |-> api, stored |-> FALSE, warning |-> w]
    IN  IF row.Date = None THEN skipped(NoWarning)
        ELSE LET record_date == date_of_dmy(row.Date)
             IN  IF ~record_date.ok
                 THEN skipped(Warning(
                          "Invalid date format in API response: {}, skipping",
                          <<>>, row.Date))
                 ELSE IF row.Value = None
                 THEN skipped(Warning(
                          "No Value element for date {}, skipping",
                          <<record_date.date>>, None))
                 ELSE LET rate == float(replace_comma(row.Value))
                      IN  IF rate = Raised
                          THEN skipped(Warning(
                                   "Invalid rate value for date {}: {}, skipping",
                                   <<record_date.date>>, row.Value))
                          ELSE [api |-> put(api, record_date.date, rate),
                                stored |-> TRUE, warning |-> NoWarning]

\* the fill loop with current_date < end_date for its condition
RECURSIVE FillRatesExclusive(_, _, _)
FillRatesExclusive(api, current_date, end_date) ==
    IF current_date < end_date
    THEN <<ExchangeRateRecord(current_date, get(api, current_date), RUB_USD)>>
         \o FillRatesExclusive(api, current_date + 1, end_date)
    ELSE <<>>

\* the while loop of _parse_xml_response from current_date on
RECURSIVE FillRates(_, _, _)
FillRates(api, current_date, end_date) ==
    IF current_date <= end_date
    THEN <<ExchangeRateRecord(current_date, get(api, current_date), RUB_USD)>>
         \o FillRates(api, current_date + 1, end_date)
    ELSE <<>>

\* the messages of MoexClient (moex_client.py, lines 52 .. 130)
MSG_TIMEOUT == "^T^a^y^m^a^u^t ^p^r^i ^o^b^r^a^5^e^n^i^i ^k API ^M^o^s^b^i^r^j^i."
MSG_CONNECTION ==
    "^S^e^t^e^v^a^0 ^o^w^i^b^k^a ^p^r^i ^o^b^r^a^5^e^n^i^i ^k API ^M^o^s^b^i^r^j^i."
MSG_HTTP(status) ==
    "API ^M^o^s^b^i^r^j^i ^v^e^r^n^u^l^o ^o^w^i^b^k^u HTTP " \o ToString(status)
MSG_JSON == "^N^e^k^o^r^r^e^k^t^n^7^y JSON ^o^t API ^M^o^s^b^i^r^j^i."
MSG_UNEXPECTED(e) ==
    "^N^e^o^j^i^d^a^n^n^a^0 ^o^w^i^b^k^a ^p^r^i ^o^b^r^a^5^e^n^i^i ^k API ^M^o^s^b^i^r^j^i: "
    \o e
MSG_NO_CANDLES ==
    "^N^e^k^o^r^r^e^k^t^n^7^e ^d^a^n^n^7^e ^o^t API ^M^o^s^b^i^r^j^i: ^o^t^s^u^t^s^t^v^u^e^t ^s^e^k^c^i^0 candles"
MSG_NO_COLUMN(col) ==
    "^N^e^k^o^r^r^e^k^t^n^7^e ^d^a^n^n^7^e ^o^t API ^M^o^s^b^i^r^j^i: ^n^e^t ^k^o^l^o^n^k^i "
    \o col
MSG_BAD_NUMBER(value) ==
    "^N^e^k^o^r^r^e^k^t^n^o^e ^4^i^s^l^o^v^o^e ^z^n^a^4^e^n^i^e ^v ^o^t^v^e^t^e API: "
    \o str(value)
MSG_NEGATIVE(value) ==
    "^O^t^r^i^c^a^t^e^l^9^n^o^e ^z^n^a^4^e^n^i^e ^v ^d^a^n^n^7^h API: " \o str(value)
\* the begin cell stands for the repr of the row
MSG_BAD_DATE(row) ==
    "^N^e^k^o^r^r^e^k^t^n^a^0 ^d^a^t^a ^s^v^e^4^i ^v ^o^t^v^e^t^e API: "
    \o "[" \o str(row.begin) \o ", ...]"
MSG_BOARD(board) ==
    "^P^o^l^u^4^e^n^a ^d^o^s^k^a " \o board \o ", ^o^j^i^d^a^l^a^s^9 " \o TQTF

BadNumber == [k |-> "raise: bad number", n |-> 0]
Negative == [k |-> "raise: negative", n |-> 0]
\* parse_float without its test of the sign
parse_float_any_sign(value) ==
    IF value = None THEN None
    ELSE LET number == float(value)
         IN  IF number = Raised THEN BadNumber ELSE number

parse_float(value) ==
    IF value = None THEN None
    ELSE LET number == float(value)
         IN  IF number = Raised THEN BadNumber
             ELSE IF LtZero(number) THEN Negative
             ELSE number

\* the first of the five cells, in the order of the CandleRecord(...) call,
\* that parse_float refuses (0: none)
FirstRefused(cells) ==
    LET refused == {f \in 1 .. Len(FieldNames) :
                       parse_float(cells[FieldNames[f]])
                           \in {BadNumber, Negative}}
    IN  IF refused = {} THEN 0
        ELSE CHOOSE f \in refused : \A g \in refused : f <= g

\* the range test of the row loop without its upper end
OutsideStartOnly(d, start_date, end_date) == d < start_date

\* if record_date < start_date or record_date > end_date: continue
Outside(d, start_date, end_date) == d < start_date \/ d > end_date

\* one row of candles["data"]: the exception it raises, or the
\* records_by_date after it
MoexRow(by_date, columns, row, start_date, end_date) ==
    LET day == date_of_iso(row.begin)
        board == IF "boardid" \in columns THEN row.boardid
                 ELSE EXPECTED_BOARD
        refused == FirstRefused(row.cells)
    IN  IF ~day.ok
        THEN [raised |-> RaiseFrom("MoexClientError", MSG_BAD_DATE(row),
                                   Exception("fromisoformat", "")),
              by_date |-> by_date, stored |-> FALSE]
        ELSE IF Outside(day.date, start_date, end_date)
        THEN [raised |-> NoError, by_date |-> by_date, stored |-> FALSE]
        ELSE IF board # EXPECTED_BOARD
        THEN [raised |-> Exception("MoexClientError", MSG_BOARD(board)),
              by_date |-> by_date, stored |-> FALSE]
        ELSE IF refused # 0
        THEN [raised |->
                  IF parse_float(row.cells[FieldNames[refused]]) = BadNumber
                  THEN RaiseFrom("MoexClientError",
                                 MSG_BAD_NUMBER(row.cells[FieldNames[refused]]),
                                 Exception("float", ""))
                  ELSE Exception("MoexClientError",
                                 MSG_NEGATIVE(row.cells[FieldNames[refused]])),
              by_date |-> by_date, stored |-> FALSE]
        ELSE [raised |-> NoError, stored |-> TRUE,
              by_date |->
                  put(by_date, day.date,
                      CandleRecord(day.date,
                                   parse_float(row.cells.open),
                                   parse_float(row.cells.high),
                                   parse_float(row.cells.low),
                                   parse_float(row.cells.close),
                                   parse_float(row.cells.volume),
                                   INSTRUMENT, EXPECTED_BOARD))]

\* the while loop of _parse_payload from current_date on
RECURSIVE FillCandles(_, _, _)
FillCandles(by_date, current_date, end_date) ==
    IF current_date <= end_date
    THEN <<IF current_date \in DOMAIN by_date THEN by_date[current_date]
           ELSE CandleRecord(current_date, None, None, None, None, None,
                             INSTRUMENT, EXPECTED_BOARD)>>
         \o FillCandles(by_date, current_date + 1, end_date)
    ELSE <<>>

\* the upstream rows the model draws: rows of the first and of the last day
\* of the range and of the days next to it
RowDays == {period_start - 1, period_start, period_end, period_end + 1}
CbrRows ==
    [Date : {None, StrBad} \cup {DateAttr(d) : d \in RowDays},
     Value : {None, StrBad, StrNaN, StrInf, StrComma(1), Str(0), Str(-1)}]
\* five cells, all 1 but one
Cells(f, v) ==
    [g \in {FieldNames[i] : i \in 1 .. Len(FieldNames)} |->
        IF g = f THEN v ELSE Num(1)]
\* every field in turn is 0 or negative; close takes the other values too
MoexCells ==
    {Cells(FieldNames[f], v) : f \in 1 .. Len(FieldNames),
                               v \in {Num(0), Num(-1)}}
    \cup {Cells("close", v) : v \in {Num(1), None, NaN, PosInf, Str(1), StrBad}}
    \cup {[g \in {FieldNames[i] : i \in 1 .. Len(FieldNames)} |-> None]}
MoexRows ==
    [begin : {StrBad} \cup {Begin(d, "00:00:00") : d \in RowDays},
     boardid : {TQTF, "TQBR"},
     cells : MoexCells]

\* the decoded bodies of the upstream responses, apart from their rows
Payloads(parser) ==
    IF parser = CBR_PARSE
    THEN {[k |-> "xml", wellformed |-> b] : b \in BOOLEAN}
    ELSE {[k |-> "json", candles |-> b, columns |-> c] :
             b \in BOOLEAN,
             c \in {required_columns \cup {"boardid"},
                    required_columns,
                    (required_columns \ {"volume"}) \cup {"boardid"}}}

\* the rows the payload keeps: findall('Record') / candles["data"]
Rows == IF "rows" \in DOMAIN payload THEN payload.rows ELSE <<>>

InitDensify ==
    /\ pc = "called"
    /\ callee \in {CBR_PARSE, MOEX_PARSE}
    /\ period_start = Day0
    /\ period_end \in {Day0 + n - 1 : n \in 1 .. MaxDays}
    /\ records = <<>>
    /\ result = NoResult
    /\ payload \in Payloads(callee)
    /\ api_records = <<>>
    /\ upstream = <<>>
    /\ taken = 0
    /\ error = NoError
    /\ warning = NoWarning
    /\ NoRun

\* root = ET.fromstring(xml_content)
FromString ==
    /\ pc = "called" /\ callee = CBR_PARSE
    /\ IF payload.wellformed
       THEN pc' = "parsing" /\ error' = error
       ELSE pc' = "raised" /\ error' = Exception("ParseError", "")
    /\ UNCHANGED <<callee, period_start, period_end, records, result,
                   payload, api_records, upstream, taken>>
    /\ UNCHANGED <<warning, runVars>>

\* the checks of the candles section and of its columns
CheckColumns ==
    /\ pc = "called" /\ callee = MOEX_PARSE
    /\ IF ~payload.candles
       THEN /\ pc' = "raised"
            /\ error' = Exception("MoexClientError", MSG_NO_CANDLES)
       ELSE IF ~(required_columns \subseteq payload.columns)
       THEN /\ pc' = "raised"
            /\ error' = Exception("MoexClientError",
                                  MSG_NO_COLUMN(FirstMissing(payload.columns)))
       ELSE pc' = "parsing" /\ error' = error
    /\ UNCHANGED <<callee, period_start, period_end, records, result,
                   payload, api_records, upstream, taken>>
    /\ UNCHANGED <<warning, runVars>>

\* the body of for record_elem in root.findall('Record') for one row
CbrLoopBody(row) ==
    /\ pc = "parsing" /\ callee = CBR_PARSE
    /\ LET r == CbrRecord(api_records, row)
       IN  /\ api_records' = r.api
           /\ warning' = r.warning
           /\ upstream' = IF r.stored
                          THEN put(upstream, date_of_dmy(row.Date).date,
                                   row.Value)
                          ELSE upstream
    /\ UNCHANGED <<pc, callee, period_start, period_end, records, result,
                   payload, error>>
    /\ UNCHANGED runVars

\* one iteration of for record_elem in root.findall('Record')
CbrParseRecord ==
    /\ Rows = <<>>
    /\ \E row \in CbrRows : CbrLoopBody(row)
    /\ UNCHANGED taken

\* the body of for row in data_rows for one row
MoexLoopBody(row) ==
    /\ pc = "parsing" /\ callee = MOEX_PARSE
    /\ LET r == MoexRow(api_records, payload.columns, row,
                        period_start, period_end)
       IN  /\ api_records' = r.by_date
           /\ error' = r.raised
           /\ pc' = IF r.raised # NoError THEN "raised" ELSE pc
           /\ upstream' = IF r.stored
                          THEN put(upstream, date_of_iso(row.begin).date,
                                   row.cells)
                          ELSE upstream
    /\ UNCHANGED <<callee, period_start, period_end, records, result,
                   payload>>
    /\ UNCHANGED <<warning, runVars>>

\* one iteration of for row in data_rows
MoexParseRow ==
    /\ Rows = <<>>
    /\ \E row \in MoexRows : MoexLoopBody(row)
    /\ UNCHANGED taken

\* the rows are exhausted: the fill loop and the return
CbrFill ==
    /\ pc = "parsing" /\ callee = CBR_PARSE
    /\ taken = Len(Rows)
    /\ records' = FillRates(api_records, period_start, period_end)
    /\ pc' = "densified"
    /\ UNCHANGED <<callee, period_start, period_end, result, payload,
                   api_records, upstream, taken, error>>
    /\ warning' = NoWarning
    /\ UNCHANGED runVars

MoexFill ==
    /\ pc = "parsing" /\ callee = MOEX_PARSE
    /\ taken = Len(Rows)
    /\ records' = FillCandles(api_records, period_start, period_end)
    /\ pc' = "densified"
    /\ UNCHANGED <<callee, period_start, period_end, result, payload,
                   api_records, upstream, taken, error>>
    /\ warning' = NoWarning
    /\ UNCHANGED runVars

NextDensify ==
    \/ FromString \/ CheckColumns
    \/ CbrParseRecord \/ MoexParseRow
    \/ CbrFill \/ MoexFill

SpecDensify == InitDensify /\ [][NextDensify]_vars

----------------------------------------------------------------------------
(* Calls of the densifiers with the rows kept in the payload: the loop     *)
(* takes them in their order, one per step.                                *)

\* a payload keeps at most MaxRows rows
MaxRows == 2

\* the sequences of at most n elements of S
SeqsUpTo(S, n) == UNION {[1 .. k -> S] : k \in 0 .. n}

\* the <Record> elements and the candles["data"] rows a payload keeps
KeptCbrRows ==
    [Date : {StrBad} \cup {DateAttr(d) : d \in RowDays},
     Value : {StrComma(1), Str(0), StrBad}]
KeptMoexRows ==
    [begin : {StrBad} \cup {Begin(d, "00:00:00") : d \in RowDays},
     boardid : {TQTF, "TQBR"},
     cells : {Cells("close", v) : v \in {Num(1), Num(0), Num(-1)}}]

InitPayload ==
    /\ pc = "called"
    /\ callee \in {CBR_PARSE, MOEX_PARSE}
    /\ period_start = Day0
    /\ period_end \in {Day0 + n - 1 : n \in 1 .. MaxDays}
    /\ records = <<>>
    /\ result = NoResult
    /\ payload \in IF callee = CBR_PARSE
                   THEN {[k |-> "xml", wellformed |-> TRUE, rows |-> rows] :
                            rows \in SeqsUpTo(KeptCbrRows, MaxRows)}
                   ELSE {[k |-> "json", candles |-> TRUE,
                          columns |-> required_columns \cup {"boardid"},
                          rows |-> rows] :
                            rows \in SeqsUpTo(KeptMoexRows, MaxRows)}
    /\ api_records = <<>>
    /\ upstream = <<>>
    /\ taken = 0
    /\ error = NoError
    /\ warning = NoWarning
    /\ NoRun

\* one iteration of for record_elem in root.findall('Record')
TakeRecord ==
    /\ taken < Len(Rows)
    /\ CbrLoopBody(Rows[taken + 1])
    /\ taken' = taken + 1

\* one iteration of for row in data_rows
TakeRow ==
    /\ taken < Len(Rows)
    /\ MoexLoopBody(Rows[taken + 1])
    /\ taken' = taken + 1

NextPayload ==
    \/ FromString \/ CheckColumns
    \/ TakeRecord \/ TakeRow
    \/ CbrFill \/ MoexFill

SpecPayload == InitPayload /\ [][NextPayload]_vars

----------------------------------------------------------------------------
(* src/utils/date_utils.py *)

\* get_last_7_days with 7 days back for its start
get_last_7_days_back7(clock) ==
    LET start_date == clock - 7
    IN  [i \in 1 .. 7 |-> start_date + (i - 1)]

\* get_last_7_days() when date.today() returns clock
get_last_7_days(clock) ==
    LET start_date == clock - 6
    IN  [i \in 1 .. 7 |-> start_date + (i - 1)]

----------------------------------------------------------------------------
(* src/services/parquet_writer.py, src/services/xlsx_writer.py: the sinks.  *)
(* The time of day datetime.now() returns is counted in ticks from          *)
(* midnight, TicksPerSecond of them to the second; "%H%M%S" prints whole    *)
(* seconds.                                                                 *)

\* the time of day datetime.now() returns is one of 0 .. MaxNow ticks
MaxNow == 2

\* the resolution of datetime.now() under that of "%H%M%S"
TicksPerSecond == 2

\* date.isoformat(): the text YYYY-MM-DD of a date
isoformat(d) == [k |-> "YYYY-MM-DD", n |-> d]

\* datetime.now().strftime("%H%M%S") printed with its sub-second part
strftime_subsecond(now) == [k |-> "HHMMSS", n |-> now]

\* datetime.now().strftime("%H%M%S"): the text of the whole seconds
strftime(now) == [k |-> "HHMMSS", n |-> now \div TicksPerSecond]

\* os.path.join(output_dir, filename)
join(output_dir, filename) == [dir |-> output_dir, name |-> filename]

\* ParquetWriter._generate_filename when datetime.now() returns now
ParquetWriter_generate_filename(metadata, output_dir, now) ==
    LET timestamp == strftime(now)
        filename == <<"rub_usd_", metadata.period_start, "_to_",
                      metadata.period_end, "_", metadata.report_date, "_",
                      timestamp, ".parquet">>
    IN  join(output_dir, filename)

\* XLSXWriter._generate_filename when datetime.now() returns now
XLSXWriter_generate_filename(start, end, report_date, output_dir, now) ==
    LET timestamp == strftime(now)
        name == <<"lqdt_tqtf_", isoformat(start), "_to_", isoformat(end),
                  "_", isoformat(report_date), "_", timestamp, ".xlsx">>
    IN  join(output_dir, name)

required_keys == {"report_date", "period_start", "period_end", "data_source"}

missing_keys(metadata) == required_keys \ DOMAIN metadata

MSG_MISSING_KEYS == "Missing required metadata keys: "
MSG_NO_RECORDS == "^N^e^t ^d^a^n^n^7^h ^s^v^e^4^e^y ^d^l^0 ^z^a^p^i^s^i"

\* the arguments of writer.write_exchange_rates(records, metadata, output_dir)
ParquetArgs(recs, metadata, output_dir) ==
    [records |-> recs, metadata |-> metadata, output_dir |-> output_dir]

\* the arguments of writer.write_candles(records, output_dir, period_start,
\* period_end, report_date)
XlsxArgs(recs, output_dir, start, end, report_date) ==
    [records |-> recs, output_dir |-> output_dir, period_start |-> start,
     period_end |-> end, report_date |-> report_date]

\* a file the sink wrote: its path, what was written into it and when
File(path, start, end, report_date, recs, metadata, now) ==
    [path |-> path, period_start |-> start, period_end |-> end,
     report_date |-> report_date, records |-> recs, metadata |-> metadata,
     at |-> now]

\* what the writer raises before it names the file, if anything
Refused(fn, args) ==
    IF fn = "write_exchange_rates"
    THEN IF missing_keys(args.metadata) # {}
         THEN Exception("ValueError", MSG_MISSING_KEYS)
         ELSE NoError
    ELSE IF args.records = <<>>
         THEN Exception("ValueError", MSG_NO_RECORDS)
         ELSE NoError

\* the file the writer writes when datetime.now() returns now
Written(fn, args, now) ==
    IF fn = "write_exchange_rates"
    THEN File(ParquetWriter_generate_filename(args.metadata, args.output_dir,
                                              now),
              args.metadata.period_start.n, args.metadata.period_end.n,
              args.metadata.report_date.n, args.records, args.metadata,
              now)
    ELSE File(XLSXWriter_generate_filename(args.period_start,
                                           args.period_end, args.report_date,
                                           args.output_dir, now),
              args.period_start, args.period_end, args.report_date,
              args.records, <<>>, now)

\* ParquetWriter.write_exchange_rates / XLSXWriter.write_candles when
\* datetime.now() returns now: the check of the arguments, then the file, or
\* what the libraries under it raise
WriterCall(fn, args, now) ==
    \/ /\ Refused(fn, args) # NoError
       /\ error' = Refused(fn, args)
       /\ UNCHANGED files
    \/ /\ Refused(fn, args) = NoError
       /\ files' = files \cup {Written(fn, args, now)}
       /\ error' = NoError
    \/ /\ Refused(fn, args) = NoError
       /\ \E exc \in {"IOError", "ValueError", "Exception"} :
             error' = Exception(exc, "")
       /\ UNCHANGED files

----------------------------------------------------------------------------
(* src/cli/main.py: main from the resolved command on, _run_cbr and        *)
(* _run_moex_lqdt, with the request parts of the two clients               *)
(* (get_exchange_rates, get_daily_candles) around the densifiers above.    *)

EXIT_SUCCESS == 0
EXIT_API_ERROR == 1
EXIT_NETWORK_ERROR == 2
EXIT_INVALID_DATA == 3
EXIT_FILE_SYSTEM_ERROR == 4
EXIT_VALIDATION_ERROR == 5

CBR == "cbr"
MOEX_LQDT == "moex-lqdt"

\* the messages of CBRClient.get_exchange_rates
CBR_TIMEOUT ==
    "Network timeout while connecting to CBR API. Please check your network connection."
CBR_CONNECTION ==
    "Unable to connect to CBR API. Please check your network connection."
CBR_HTTP(status) == "CBR API returned error: " \o status
CBR_ENCODING ==
    "Invalid response encoding from CBR API. Expected windows-1251."
CBR_XML == "Invalid or malformed XML response from CBR API."

\* the except clause of _run_cbr without the elif for invalid data
_run_cbr_except_no_elif(e) ==
    LET error_str == lower(e.msg)
    IN  IF \/ in("timeout", error_str)
           \/ in("connection", error_str)
           \/ in("network", error_str)
        THEN EXIT_NETWORK_ERROR
        ELSE EXIT_API_ERROR

\* the except clause of _run_cbr: the exit code for a CBRClientError
_run_cbr_except(e) ==
    LET error_str == lower(e.msg)
    IN  IF \/ in("timeout", error_str)
           \/ in("connection", error_str)
           \/ in("network", error_str)
        THEN EXIT_NETWORK_ERROR
        ELSE IF in("invalid", error_str) \/ in("malformed", error_str)
        THEN EXIT_INVALID_DATA
        ELSE EXIT_API_ERROR

_classify_moex_error(e) ==
    LET error_str == lower(e.msg)
    IN  IF \/ in("^t^a^y^m^a^u^t", error_str)
           \/ in("^s^e^t^e^v^a^0", error_str)
        THEN EXIT_NETWORK_ERROR
        ELSE IF in("http", error_str) \/ in("api", error_str)
        THEN EXIT_API_ERROR
        ELSE IF \/ in("^n^e^k^o^r^r^e^k^t", error_str)
                \/ in("^d^a^n^n", error_str)
        THEN EXIT_INVALID_DATA
        ELSE EXIT_API_ERROR

\* a call the run made: the function, the period it was given (or, for
\* get_last_7_days, returned), what it read from the clock and, for a
\* writer, its arguments
Call(fn, start, end, clock, args) ==
    [fn |-> fn, start |-> start, end |-> end, clock |-> clock,
     args |-> args]

\* logger.error(msg); print(msg, file=sys.stderr); return code
Report(msg, code) ==
    /\ log' = log \cup {msg}
    /\ stderr' = stderr \cup {msg}
    /\ exit_code' = <<code>>
    /\ pc' = "exited"

\* what stands for the text of an exception of a library
Text(e) == "<" \o e.exc \o ">"

\* the HTTP error statuses and the other outcomes of session.get(...),
\* raise_for_status() and of the decoding of the body
Statuses == {"404", "503"}
Transport ==
    {Exception("requests.Timeout", ""),
     Exception("requests.ConnectionError", ""),
     Exception("requests.TooManyRedirects", "")}
    \cup {Exception("requests.HTTPError", st) : st \in Statuses}

InitRun ==
    /\ pc = "main"
    /\ callee = "main"
    /\ command \in {CBR, MOEX_LQDT}
    /\ today = Day0 + 6
    /\ period_start = Day0
    /\ period_end = Day0
    /\ records = <<>>
    /\ result = NoResult
    /\ payload = NoPayload
    /\ api_records = <<>>
    /\ upstream = <<>>
    /\ taken = 0
    /\ error = NoError
    /\ warning = NoWarning
    /\ dates = <<>>
    /\ calls = <<>>
    /\ log = {}
    /\ stderr = {}
    /\ files = {}
    /\ exit_code = <<>>

\* the clock passes midnight
Tick ==
    /\ pc # "exited"
    /\ today < Day0 + 6 + MaxTicks
    /\ today' = today + 1
    /\ UNCHANGED <<pc, callee, period_start, period_end, records, result,
                   payload, api_records, upstream, taken, error, warning, command,
                   dates, calls, log, stderr, files, exit_code>>

\* dates = get_last_7_days()
GetLast7Days ==
    /\ pc = "main"
    /\ dates' = get_last_7_days(today)
    /\ calls' = Append(calls, Call("get_last_7_days", dates'[1],
                                   dates'[Len(dates')], <<today>>, <<>>))
    /\ pc' = "request"
    /\ UNCHANGED <<callee, period_start, period_end, records, result, payload,
                   api_records, upstream, taken, error, warning, today, command, log,
                   stderr, files, exit_code>>

\* the arguments the run gives the provider, the validator and the sink
Window == [start |-> dates[1], end |-> dates[Len(dates)]]
\* the period of the sink computed anew from the clock
WindowOfClock == [start |-> today - 6, end |-> today]

\* client.get_exchange_rates(start_date, end_date) /
\* client.get_daily_candles(start_date, end_date) up to the parsing: the
\* request fails, the body cannot be decoded, or it is handed to the parser
Request ==
    /\ pc = "request"
    /\ callee' = IF command = CBR THEN CBR_PARSE ELSE MOEX_PARSE
    /\ period_start' = Window.start
    /\ period_end' = Window.end
    /\ calls' = Append(calls,
                       Call(IF command = CBR THEN "get_exchange_rates"
                            ELSE "get_daily_candles",
                            Window.start, Window.end, <<>>, <<>>))
    /\ \/ \E e \in Transport :
             /\ error' = e
             /\ pc' = "raised"
             /\ UNCHANGED <<payload, log>>
       \/ /\ command = CBR
          /\ log' = log \cup {"Failed to decode response from windows-1251"}
          /\ error' = RaiseFrom("CBRClientError", CBR_ENCODING,
                              Exception("UnicodeDecodeError", ""))
          /\ pc' = "client error"
          /\ UNCHANGED payload
       \/ /\ command = MOEX_LQDT
          /\ error' = Exception("JSONDecodeError", "")
          /\ pc' = "raised"
          /\ UNCHANGED <<payload, log>>
       \/ /\ payload' \in Payloads(callee')
          /\ pc' = "called"
          /\ UNCHANGED <<error, log>>
    /\ UNCHANGED <<records, result, api_records, upstream, taken, warning, today,
                   command, dates, stderr, files, exit_code>>

\* the except clauses of get_exchange_rates
CbrClientExcept ==
    /\ pc = "raised" /\ command = CBR
    /\ LET msg == CASE error.exc = "requests.Timeout" -> CBR_TIMEOUT
                    [] error.exc = "requests.ConnectionError" -> CBR_CONNECTION
                    [] error.exc = "requests.HTTPError" -> CBR_HTTP(error.msg)
                    [] error.exc = "ParseError" -> CBR_XML
                    [] OTHER -> ""
       IN  IF msg = ""
           THEN /\ pc' = "uncaught"
                /\ UNCHANGED <<error, log, stderr>>
           ELSE /\ log' = log \cup {msg}
                /\ stderr' = stderr \cup {msg}
                /\ error' = RaiseFrom("CBRClientError", msg, error)
                /\ pc' = "client error"
    /\ UNCHANGED <<callee, period_start, period_end, records, result, payload,
                   api_records, upstream, taken, warning, today, command, dates,
                   calls, files, exit_code>>

\* the except clauses of get_daily_candles
MoexClientExcept ==
    /\ pc = "raised" /\ command = MOEX_LQDT
    /\ IF error.exc = "MoexClientError"
       THEN /\ pc' = "client error"
            /\ UNCHANGED <<error, log, stderr>>
       ELSE LET msg ==
                    CASE error.exc = "requests.Timeout" -> MSG_TIMEOUT
                      [] error.exc = "requests.ConnectionError" ->
                             MSG_CONNECTION
                      [] error.exc = "requests.HTTPError" ->
                             MSG_HTTP(error.msg)
                      [] error.exc = "JSONDecodeError" -> MSG_JSON
                      [] OTHER -> MSG_UNEXPECTED(Text(error))
            IN  /\ log' = log \cup {msg}
                /\ stderr' = stderr \cup {msg}
                /\ error' = RaiseFrom("MoexClientError", msg, error)
                /\ pc' = "client error"
    /\ UNCHANGED <<callee, period_start, period_end, records, result, payload,
                   api_records, upstream, taken, warning, today, command, dates,
                   calls, files, exit_code>>

\* the except clause of the run fetching again
AfterExceptRetry == "request"

\* where the return of the except clause of the run leaves the run
AfterExcept == "exited"

\* except CBRClientError / except MoexClientError of the run
RunExcept ==
    /\ pc = "client error"
    /\ exit_code' = <<IF command = CBR THEN _run_cbr_except(error)
                      ELSE _classify_moex_error(error)>>
    /\ pc' = AfterExcept
    /\ UNCHANGED <<callee, period_start, period_end, records, result, payload,
                   api_records, upstream, taken, error, warning, today, command,
                   dates, calls, log, stderr, files>>

\* except Exception of main
MainExcept ==
    /\ pc = "uncaught"
    /\ Report("Unexpected error: " \o Text(error), EXIT_API_ERROR)
    /\ UNCHANGED <<callee, period_start, period_end, records, result, payload,
                   api_records, upstream, taken, error, warning, today, command,
                   dates, calls, files>>

\* except KeyboardInterrupt of main
Interrupt ==
    /\ pc \notin {"exited"}
    /\ stderr' = stderr \cup {"Interrupted by the user"}
    /\ exit_code' = <<EXIT_API_ERROR>>
    /\ pc' = "exited"
    /\ UNCHANGED <<callee, period_start, period_end, records, result, payload,
                   api_records, upstream, taken, error, warning, today, command,
                   dates, calls, log, files>>

\* is_valid of a validator that always answers True
is_valid_always(res) == TRUE

\* is_valid of is_valid, error_msg = validate_...(...)
is_valid(res) == res.ok

\* is_valid, error_msg = validate_records(records, start_date, end_date) /
\* validate_candles(records, start_date, end_date) and the test of is_valid
RunValidate ==
    /\ pc = "densified"
    /\ result' = IF command = CBR
                 THEN validate_records(records, Window.start, Window.end)
                 ELSE validate_candles(records, Window.start, Window.end)
    /\ calls' = Append(calls,
                       Call(IF command = CBR THEN "validate_records"
                            ELSE "validate_candles",
                            Window.start, Window.end, <<>>, <<>>))
    /\ IF is_valid(result')
       THEN /\ pc' = "write"
            /\ UNCHANGED <<log, stderr, exit_code>>
       ELSE Report("Validation failed: " \o result'.reason.msg,
                   EXIT_VALIDATION_ERROR)
    /\ UNCHANGED <<callee, period_start, period_end, records, payload,
                   api_records, upstream, taken, error, warning, today, command,
                   dates, files>>

\* the sink is given the window of the run
SinkPeriod == Window

\* the except clauses after the write, all returning EXIT_SUCCESS
SinkExitSuccess(exc) == EXIT_SUCCESS

\* the except clauses after the write, all returning EXIT_VALIDATION_ERROR
SinkExitValidation(exc) == EXIT_VALIDATION_ERROR

\* the except clauses after the write: the exit code for the exception
SinkExit(exc) ==
    IF exc = "IOError" THEN EXIT_FILE_SYSTEM_ERROR
    ELSE IF exc = "ValueError" THEN EXIT_INVALID_DATA
    ELSE EXIT_FILE_SYSTEM_ERROR

\* the metadata of _run_cbr without its data_source
MetadataNoSource(report_date, start, end) ==
    [report_date |-> isoformat(report_date),
     period_start |-> isoformat(start),
     period_end |-> isoformat(end)]

\* the metadata dict _run_cbr builds, report_date being date.today()
Metadata(report_date, start, end) ==
    [report_date |-> isoformat(report_date),
     period_start |-> isoformat(start),
     period_end |-> isoformat(end),
     data_source |-> "CBR"]

\* the records handed to the sink, last first
SinkRecordsReversed ==
    [i \in 1 .. Len(records) |-> records[Len(records) + 1 - i]]

\* the records handed to the sink
SinkRecords == records

\* the arguments of the writer call of the run
SinkArgs ==
    IF command = CBR
    THEN ParquetArgs(SinkRecords,
                     Metadata(today, SinkPeriod.start, SinkPeriod.end), ".")
    ELSE XlsxArgs(SinkRecords, ".", SinkPeriod.start, SinkPeriod.end, today)

\* writer.write_exchange_rates(records, metadata, output_dir=".") /
\* writer.write_candles(records, ...) and the except clauses after it
Write ==
    /\ pc = "write"
    /\ LET fn == IF command = CBR THEN "write_exchange_rates"
                 ELSE "write_candles"
       IN  \E now \in 0 .. MaxNow :
              /\ calls' = Append(calls, Call(fn, SinkPeriod.start,
                                             SinkPeriod.end, <<today, now>>,
                                             SinkArgs))
              /\ WriterCall(fn, SinkArgs, now)
    /\ IF error' = NoError
       THEN /\ exit_code' = <<EXIT_SUCCESS>>
            /\ pc' = "exited"
            /\ UNCHANGED <<log, stderr>>
       ELSE Report("Sink failed: " \o Text(error'), SinkExit(error'.exc))
    /\ UNCHANGED <<callee, period_start, period_end, records, result, payload,
                   api_records, upstream, taken, warning, today, command, dates>>

\* the densifier inside the request of the run
RunParse ==
    /\ command # ""
    /\ NextDensify

NextRun ==
    \/ Tick
    \/ GetLast7Days
    \/ Request
    \/ RunParse
    \/ CbrClientExcept \/ MoexClientExcept
    \/ RunExcept \/ MainExcept \/ Interrupt
    \/ RunValidate
    \/ Write

SpecRun == InitRun /\ [][NextRun]_vars

----------------------------------------------------------------------------
(* Calls of the writers.  Both writers are public methods; they are called *)
(* here twice in a row, with any arguments and at any time of day.         *)

\* a dense list of the records of start .. end, all with the same value
Dense(fn, start, end) ==
    [i \in 1 .. (end - start) + 1 |->
        IF fn = "write_exchange_rates"
        THEN ExchangeRateRecord(start + (i - 1), Num(1), RUB_USD)
        ELSE CandleRecord(start + (i - 1), Num(1), Num(1), Num(1), Num(1),
                          Num(1), LQDT, TQTF)]

\* the arguments a writer is called with for the period start .. end
WriterArgs(fn, start, end) ==
    IF fn = "write_exchange_rates"
    THEN {ParquetArgs(Dense(fn, start, end), metadata, output_dir) :
             metadata \in {Metadata(report_date, start, end) :
                              report_date \in end + 1 .. end + 2}
                          \cup {MetadataNoSource(end + 1, start, end)},
             output_dir \in {".", "out"}}
    ELSE {XlsxArgs(recs, output_dir, start, end, report_date) :
             recs \in {Dense(fn, start, end), <<>>},
             output_dir \in {".", "out"},
             report_date \in end + 1 .. end + 2}

InitWrite ==
    /\ pc = "writer"
    /\ callee = "writer"
    /\ period_start = Day0
    /\ period_end = Day0
    /\ records = <<>>
    /\ result = NoResult
    /\ payload = NoPayload
    /\ api_records = <<>>
    /\ upstream = <<>>
    /\ taken = 0
    /\ error = NoError
    /\ warning = NoWarning
    /\ NoRun

\* writer.write_exchange_rates(...) / writer.write_candles(...)
CallWriter(from, to) ==
    /\ pc = from
    /\ \E fn \in {"write_exchange_rates", "write_candles"} :
       \E end \in Day0 .. Day0 + MaxShift :
       \E args \in WriterArgs(fn, Day0, end) :
       \E now \in 0 .. MaxNow :
          /\ callee' = fn
          /\ period_end' = end
          /\ records' = args.records
          /\ calls' = Append(calls, Call(fn, Day0, end, <<today, now>>,
                                         args))
          /\ WriterCall(fn, args, now)
    /\ pc' = to
    /\ UNCHANGED <<period_start, result, payload, api_records, upstream, taken,
                   warning, today, command, dates, log, stderr, exit_code>>

FirstWrite == CallWriter("writer", "again")

SecondWrite == CallWriter("again", "written")

NextWrite == FirstWrite \/ SecondWrite

SpecWrite == InitWrite /\ [][NextWrite]_vars

----------------------------------------------------------------------------
(* Vocabulary of the properties *)

Validated(v) == pc = "validated" /\ callee = v
DateSet(recs) == {recs[i].date : i \in DOMAIN recs}
Period == period_start .. period_end
PeriodDays == (period_end - period_start) + 1
InPeriod(recs) == \A i \in DOMAIN recs : recs[i].date \in Period
Distinct(recs) ==
    \A i, j \in DOMAIN recs : recs[i].date = recs[j].date => i = j
OnePerDate(recs) ==
    \A d \in Period : Cardinality({i \in DOMAIN recs : recs[i].date = d}) = 1

FinitePositive(v) == v.k = "num" /\ v.n > 0
FiniteNonNegative(v) == v.k = "num" /\ v.n >= 0
\* "> 0" read literally: +inf is greater than zero, NaN and a string are not
Positive(v) == FinitePositive(v) \/ v = PosInf

RatesAll(recs, P(_)) ==
    \A i \in DOMAIN recs :
        recs[i].exchange_rate_value = None \/ P(recs[i].exchange_rate_value)
FieldsAll(recs, P(_)) ==
    \A i \in DOMAIN recs : \A f \in 1 .. Len(FieldNames) :
        recs[i][FieldNames[f]] = None \/ P(recs[i][FieldNames[f]])
PairsRight(recs) == \A i \in DOMAIN recs : recs[i].currency_pair = RUB_USD
CandleTagsRight(recs) ==
    \A i \in DOMAIN recs : recs[i].instrument = LQDT /\ recs[i].board = TQTF

HasReason(res) == res.reason # NoReason /\ res.reason.msg # ""

\* C3: for a 7-day window validate_records returns (True, None) exactly for
\* the lists of 7 records, one per date of the window, whose values are null
\* or > 0 and whose pairs are all "RUB/USD"; every other list gets (False,
\* reason) with a non-empty reason.
C3_RecordsVerdict ==
    (Validated("validate_records") /\ period_end = period_start + 6) =>
        /\ result = Ok <=>
              /\ Len(records) = 7
              /\ OnePerDate(records)
              /\ RatesAll(records, Positive)
              /\ PairsRight(records)
        /\ result.ok => result.reason = NoReason
        /\ ~result.ok => HasReason(result)

C3_Witness ==
    /\ Validated("validate_records") /\ period_end = period_start + 6
    /\ result = Ok
    /\ \E i \in DOMAIN records : records[i].exchange_rate_value = None
    /\ \E i \in DOMAIN records : records[i].exchange_rate_value = Num(1)


\* the rule of section 4.3 a result of validate_records reports (0: none)
ReportedRule(res) ==
    CASE res.reason.msg = "Expected 7 records, got {}" -> 1
      [] res.reason.msg
           = "Date {} is outside the expected period [{}, {}]" -> 2
      [] res.reason.msg = "Duplicate date found: {}" -> 3
      [] res.reason.msg = "Invalid exchange rate value for date {}: {}" -> 4
      [] res.reason.msg = "Invalid currency pair: {}, expected RUB/USD" -> 5
      [] res.reason.msg = "Missing dates in records: {}" -> 6
      [] OTHER -> 0

\* the rules 1..6 that a list violates (7-day period)
ViolatedRules(recs) ==
    {r \in 1 .. 6 :
        CASE r = 1 -> Len(recs) # 7
          [] r = 2 -> ~InPeriod(recs)
          [] r = 3 -> ~Distinct(recs)
          [] r = 4 -> \E i \in DOMAIN recs :
                          ~validate_rate(recs[i].exchange_rate_value)
          [] r = 5 -> ~PairsRight(recs)
          [] r = 6 -> DateSet(recs) # Period}

Lowest(S) == CHOOSE r \in S : \A q \in S : r <= q

\* the per-record rules 2..5 that record i violates, a duplicate being a
\* date that an earlier record of the list holds
RecordViolates(recs, i) ==
    {r \in 2 .. 5 :
        CASE r = 2 -> recs[i].date \notin Period
          [] r = 3 -> \E j \in 1 .. i - 1 : recs[j].date = recs[i].date
          [] r = 4 -> ~validate_rate(recs[i].exchange_rate_value)
          [] r = 5 -> recs[i].currency_pair # RUB_USD}

Offenders(recs) == {i \in DOMAIN recs : RecordViolates(recs, i) # {}}

\* C4 as stated: a list that violates more than one rule is rejected with
\* the reason of the lowest-numbered violated rule, wherever the offending
\* records stand in the list.
C4_LowestRuleOfList ==
    (/\ Validated("validate_records") /\ period_end = period_start + 6
     /\ Cardinality(ViolatedRules(records)) > 1) =>
        ReportedRule(result) = Lowest(ViolatedRules(records))

\* C4 (amended): the count rule is reported first; otherwise the reason is
\* the lowest-numbered rule among those violated by the first offending
\* record in list order; the completeness rule is reported only when no
\* record offends.
C4_LowestRuleOfFirstOffender ==
    (/\ Validated("validate_records") /\ period_end = period_start + 6
     /\ Cardinality(ViolatedRules(records)) > 1) =>
        ReportedRule(result) =
            IF Len(records) # 7 THEN 1
            ELSE IF Offenders(records) # {}
            THEN Lowest(RecordViolates(records, Lowest(Offenders(records))))
            ELSE 6

\* an earlier record with a wrong pair, a later one out of the period
C4_Witness ==
    /\ Validated("validate_records") /\ period_end = period_start + 6
    /\ Len(records) = 7
    /\ \E i, j \in DOMAIN records :
          /\ i < j
          /\ RecordViolates(records, i) = {5}
          /\ 2 \in RecordViolates(records, j)
          /\ Offenders(records) = {i, j}
    /\ ReportedRule(result) = 5


\* C5 as stated: for a period of N days, N not necessarily 7, and records
\* with valid values and pairs, validate_records accepts exactly the lists
\* of N records whose date set is the set of the dates of the period.
C5_AnyPeriodLength ==
    (/\ Validated("validate_records")
     /\ RatesAll(records, Positive) /\ PairsRight(records)) =>
        (result.ok <=>
            Len(records) = PeriodDays /\ DateSet(records) = Period)

\* C5 (amended): validate_records fixes the count at 7 and the expected
\* dates at period_start .. period_start + 6, whatever the length N of the
\* period: with valid values and pairs it accepts exactly the lists of 7
\* records, all dated within the period, whose date set is
\* {period_start + i : i in 0..6}.  For N = 7 these are the lists of N
\* records whose date set is the period; for N < 7 no list is accepted.
C5_SevenDaysFromStart ==
    (/\ Validated("validate_records")
     /\ RatesAll(records, Positive) /\ PairsRight(records)) =>
        /\ result.ok <=>
              /\ Len(records) = 7
              /\ InPeriod(records)
              /\ DateSet(records) = period_start .. (period_start + 6)
        /\ PeriodDays = 7 =>
              (result.ok <=>
                  Len(records) = PeriodDays /\ DateSet(records) = Period)
        /\ PeriodDays < 7 => ~result.ok

\* an 8-day period: the 8 records that cover it are refused for their count
C5_Witness ==
    /\ Validated("validate_records")
    /\ PeriodDays = 8 /\ Len(records) = 8 /\ DateSet(records) = Period
    /\ RatesAll(records, Positive) /\ PairsRight(records)
    /\ ReportedRule(result) = 1


\* C6: validate_rate accepts a value exactly when it is null or a finite
\* number strictly greater than zero: a list of a 7-day period that passes
\* every other rule of validate_records is accepted exactly when each of its
\* rates is null or finite and > 0.
C6_RateNullOrFinitePositive ==
    (/\ Validated("validate_records") /\ period_end = period_start + 6
     /\ Len(records) = 7 /\ OnePerDate(records) /\ PairsRight(records)) =>
        /\ result.ok <=> RatesAll(records, FinitePositive)
        /\ \A i \in DOMAIN records :
              validate_rate(records[i].exchange_rate_value) <=>
                  \/ records[i].exchange_rate_value = None
                  \/ FinitePositive(records[i].exchange_rate_value)

\* C7: in validate_candles each of open, high, low, close and volume passes
\* exactly when it is null or a finite number >= 0 (stated for lists that
\* pass every other rule and whose fields are all None or floats).
C7_FieldsNullOrFiniteNonNegative ==
    (/\ Validated("validate_candles")
     /\ period_start <= period_end
     /\ Len(records) = PeriodDays /\ OnePerDate(records)
     /\ CandleTagsRight(records)
     /\ FieldsAll(records, IsIntOrFloat)) =>
        (result.ok <=> FieldsAll(records, FiniteNonNegative))

\* C8: validate_candles takes the expected count from the span: a list of
\* any other length gets the count reason, and one valid, rightly tagged
\* record per date of the range is accepted, for every length of the range.
C8_CountFromSpan ==
    (Validated("validate_candles") /\ period_start <= period_end) =>
        /\ Len(records) # PeriodDays =>
              /\ ~result.ok
              /\ result.reason.msg = "Expected {} records, got {}"
              /\ result.reason.counts = <<PeriodDays, Len(records)>>
        /\ (/\ Len(records) = PeriodDays /\ OnePerDate(records)
            /\ CandleTagsRight(records)
            /\ FieldsAll(records, FiniteNonNegative)) => result = Ok

C8_Witness ==
    /\ Validated("validate_candles")
    /\ PeriodDays = 3 /\ Len(records) = 3 /\ OnePerDate(records)
    /\ \E i \in DOMAIN records : records[i].volume = Num(0)
    /\ result = Ok

\* C9: a reason names its offender: a value reason gives the date of a
\* record of the list that holds the value at fault (and, for candles, the
\* field that holds it); an out-of-period reason gives the date of a record
\* that lies outside the period; a duplicate reason gives a date that two
\* records share.
C9_ReasonNamesOffender ==
    pc = "validated" =>
        LET r == result.reason IN
        /\ r.msg = "Invalid {} value for date {}: {}" =>
              \E i \in DOMAIN records :
                  /\ r.dates = <<records[i].date>>
                  /\ \E f \in 1 .. Len(FieldNames) :
                        /\ r.name = FieldNames[f]
                        /\ records[i][FieldNames[f]] = r.value
                  /\ r.value # None /\ ~FiniteNonNegative(r.value)
        /\ r.msg = "Invalid exchange rate value for date {}: {}" =>
              \E i \in DOMAIN records :
                  /\ r.dates = <<records[i].date>>
                  /\ records[i].exchange_rate_value = r.value
                  /\ r.value # None /\ ~FinitePositive(r.value)
        /\ r.msg = "Date {} is outside the expected period [{}, {}]" =>
              \E i \in DOMAIN records :
                  /\ r.dates = <<records[i].date, period_start, period_end>>
                  /\ records[i].date \notin Period
        /\ r.msg = "Duplicate date found: {}" =>
              \E i, j \in DOMAIN records :
                  /\ i # j
                  /\ r.dates = <<records[i].date>>
                  /\ records[j].date = records[i].date

\* a candle list refused for a negative close on its second day
C9_Witness ==
    /\ Validated("validate_candles")
    /\ result.reason.msg = "Invalid {} value for date {}: {}"
    /\ result.reason.name = "close"
    /\ result.reason.dates = <<period_start + 1>>
    /\ result.reason.value = Num(-1)

\* C10: in a list with the expected count and in-period, distinct dates, one
\* record with a tag other than the expected constant makes the callee
\* return ok = false.
C10_WrongTagRejected ==
    (/\ pc = "validated"
     /\ Len(records) = PeriodDays /\ InPeriod(records) /\ Distinct(records)) =>
        /\ (callee = "validate_records" /\ ~PairsRight(records)) =>
              ~result.ok
        /\ (callee = "validate_candles" /\ ~CandleTagsRight(records)) =>
              ~result.ok

\* a candle list whose only fault is the board of its last record
C10_Witness ==
    /\ Validated("validate_candles")
    /\ Len(records) = PeriodDays /\ OnePerDate(records)
    /\ FieldsAll(records, FiniteNonNegative)
    /\ \A i \in DOMAIN records :
          records[i].instrument = LQDT
          /\ (records[i].board # TQTF <=> i = Len(records))
    /\ Len(records) > 1
    /\ result.reason.msg = "Invalid board: {}"


\* the record a densifier returned for date d
RecordAt(d) == records[(d - period_start) + 1]
\* the number (or null) that an upstream cell or text denotes
Denotes(raw) ==
    CASE raw.k \in {"str", "str,"} -> Num(raw.n)
      [] raw = StrNaN -> NaN
      [] raw = StrInf -> PosInf
      [] OTHER -> raw

\* C1: for a range of N = (end - start) + 1 days and a payload that parses,
\* both densifiers return exactly N records, the i-th dated start + i days.
C1_ExactCalendar ==
    pc = "densified" =>
        /\ Len(records) = PeriodDays
        /\ \A i \in 0 .. PeriodDays - 1 :
              records[i + 1].date = period_start + i

\* a CBR payload with an entry before the range and none for its last day
C1_Witness ==
    /\ pc = "densified" /\ callee = CBR_PARSE
    /\ PeriodDays = 2
    /\ period_start - 1 \in DOMAIN api_records
    /\ period_end \notin DOMAIN api_records
    /\ Len(records) = 2

\* C2: the record at each date d of the range carries the value(s) of the
\* upstream entry stored for d, unchanged, and null in every value field
\* when there is none.
C2_ValuesOrNull ==
    pc = "densified" =>
        \A d \in Period :
            IF callee = CBR_PARSE
            THEN RecordAt(d).exchange_rate_value =
                     IF d \in DOMAIN upstream THEN Denotes(upstream[d])
                     ELSE None
            ELSE \A f \in 1 .. Len(FieldNames) :
                     RecordAt(d)[FieldNames[f]] =
                         IF d \in DOMAIN upstream
                         THEN Denotes(upstream[d][FieldNames[f]])
                         ELSE None

\* a MOEX payload with a zero-volume candle for the first day only
C2_Witness ==
    /\ pc = "densified" /\ callee = MOEX_PARSE
    /\ PeriodDays = 2
    /\ DOMAIN upstream = {period_start}
    /\ upstream[period_start] = Cells("volume", Num(0))
    /\ RecordAt(period_start).volume = Num(0)
    /\ RecordAt(period_end).volume = None

----------------------------------------------------------------------------
(* Vocabulary of the properties of a run *)

Exited == pc = "exited"
ExitCode == exit_code[1]
CallsOf(fns) == {i \in DOMAIN calls : calls[i].fn \in fns}
Windows == CallsOf({"get_last_7_days"})
Fetches == CallsOf({"get_exchange_rates", "get_daily_candles"})
Validations == CallsOf({"validate_records", "validate_candles"})
Writes == CallsOf({"write_exchange_rates", "write_candles"})
ValidationFailed == Validations # {} /\ ~result.ok
ValidationPassed == Validations # {} /\ result.ok
SinkFailed == Writes # {} /\ files = {}
ClientErrors == {"CBRClientError", "MoexClientError"}
\* the exceptions of the fetch: those of the request and of the parsing, and
\* the client errors they are turned into
ProviderExceptions ==
    {e.exc : e \in Transport}
    \cup {"JSONDecodeError", "ParseError"} \cup ClientErrors
ProviderFailed == error.exc \in ProviderExceptions
Interrupted == "Interrupted by the user" \in stderr

\* C11: in both pipelines, when the validator returns ok = false the sink
\* writer is not invoked in that run, no file is written, and the run returns
\* EXIT_VALIDATION_ERROR (5).
C11_NoWriteAfterFailedValidation ==
    ValidationFailed =>
        /\ Writes = {}
        /\ files = {}
        /\ Exited
        /\ exit_code = <<EXIT_VALIDATION_ERROR>>

C11_Witness ==
    /\ command = MOEX_LQDT
    /\ ValidationFailed
    /\ Exited
    /\ \E i \in DOMAIN records : records[i].close = NaN

\* C12: the sink fails only after the validation has passed, and its failure
\* is reported with a code other than the validation code: IOError gives
\* EXIT_FILE_SYSTEM_ERROR (4), ValueError EXIT_INVALID_DATA (3), any other
\* exception 4; EXIT_VALIDATION_ERROR (5) is returned only when the validator
\* returned ok = false.
C12_SinkFailureCodes ==
    /\ SinkFailed =>
          /\ ValidationPassed
          /\ Exited
          /\ error.exc = "IOError" => ExitCode = EXIT_FILE_SYSTEM_ERROR
          /\ error.exc = "ValueError" => ExitCode = EXIT_INVALID_DATA
          /\ error.exc \notin {"IOError", "ValueError"} =>
                 ExitCode = EXIT_FILE_SYSTEM_ERROR
          /\ ExitCode # EXIT_VALIDATION_ERROR
    /\ (Exited /\ ExitCode = EXIT_VALIDATION_ERROR) => ValidationFailed

C12_Witness ==
    /\ SinkFailed
    /\ error.exc = "ValueError"
    /\ exit_code = <<EXIT_INVALID_DATA>>
    /\ command = CBR

Cause == error.cause
NetworkCauses == {"requests.Timeout", "requests.ConnectionError"}
ClientErrorReturned(cmd) ==
    /\ Exited
    /\ command = cmd
    /\ ~Interrupted
    /\ error.exc \in ClientErrors

\* C14: in the cbr pipeline a timeout or connection failure returns
\* EXIT_NETWORK_ERROR (2), an HTTP error status EXIT_API_ERROR (1), an
\* undecodable or malformed XML response EXIT_INVALID_DATA (3).
C14_CbrErrorKinds ==
    ClientErrorReturned(CBR) =>
        /\ Cause \in NetworkCauses => ExitCode = EXIT_NETWORK_ERROR
        /\ Cause = "requests.HTTPError" => ExitCode = EXIT_API_ERROR
        /\ Cause \in {"UnicodeDecodeError", "ParseError"} =>
               ExitCode = EXIT_INVALID_DATA
        /\ Cause \in NetworkCauses
                     \cup {"requests.HTTPError", "UnicodeDecodeError",
                           "ParseError"}

C14_Witness ==
    /\ ClientErrorReturned(CBR)
    /\ Cause = "ParseError"
    /\ exit_code = <<EXIT_INVALID_DATA>>
    /\ payload.k = "xml" /\ ~payload.wellformed

\* the malformed responses of the MOEX client: invalid JSON, and the errors
\* _parse_payload raises itself
Malformed ==
    \/ Cause = "JSONDecodeError"
    \/ Cause \in {"", "fromisoformat", "float"}

\* C15: in the moex-lqdt pipeline a timeout or connection failure returns
\* EXIT_NETWORK_ERROR (2), an HTTP error status EXIT_API_ERROR (1), and a
\* malformed response (invalid JSON, missing candles section or required
\* column, unparseable date or number, negative value, unexpected board)
\* EXIT_INVALID_DATA (3).
C15_MoexErrorKinds ==
    ClientErrorReturned(MOEX_LQDT) =>
        /\ Cause \in NetworkCauses => ExitCode = EXIT_NETWORK_ERROR
        /\ Cause = "requests.HTTPError" => ExitCode = EXIT_API_ERROR
        /\ Malformed => ExitCode = EXIT_INVALID_DATA

\* C16: the provider is called at most once per run; after a provider error
\* there is no second fetch, neither the validator nor the sink is invoked,
\* and the run returns a non-zero code; a failed validation is not followed
\* by another fetch.
C16_NoRetry ==
    /\ Cardinality(Fetches) <= 1
    /\ ProviderFailed =>
          /\ Cardinality(Fetches) = 1
          /\ Validations = {}
          /\ Writes = {}
          /\ files = {}
          /\ Exited => ExitCode # EXIT_SUCCESS
    /\ \A v \in Validations, f \in Fetches : f < v
    /\ ValidationFailed => calls[Len(calls)].fn \in {"validate_records",
                                                     "validate_candles"}

C16_Witness ==
    /\ Exited
    /\ ProviderFailed
    /\ error.exc = "MoexClientError"
    /\ Cause = "requests.Timeout"
    /\ exit_code = <<EXIT_NETWORK_ERROR>>

\* a run that failed: the provider, the validation or the sink
RunFailed ==
    /\ Exited
    /\ ~Interrupted
    /\ ProviderFailed \/ ValidationFailed \/ SinkFailed

\* C17: on every path on which a run returns a non-zero exit code for a
\* provider error of any kind (those raised while decoding or parsing the
\* response included), a validation failure or a sink failure, an error has
\* been logged and a message has been written to stderr before the return.
C17_FailuresLoggedAndPrinted ==
    RunFailed =>
        /\ ExitCode # EXIT_SUCCESS
        /\ log # {}
        /\ stderr # {}

\* what a MoexClientError raised for one row's date or number is raised from
RowCauses == {"fromisoformat", "float"}
\* a warning for a Date or a Value that could not be parsed
Unparseable(w) ==
    w.msg \in {"Invalid date format in API response: {}, skipping",
               "Invalid rate value for date {}: {}, skipping"}
ParseStep == pc = "parsing"
FillStep == pc = "parsing" /\ pc' = "densified"
AllNull(record) ==
    IF callee = CBR_PARSE THEN record.exchange_rate_value = None
    ELSE \A f \in 1 .. Len(FieldNames) : record[FieldNames[f]] = None

ClockRead == calls[1].clock

\* C19: get_last_7_days returns exactly 7 dates in chronological order, the
\* first being today - 6, the last today, each one day after the one before
\* it, where today is read from the clock once inside the call.
C19_LastSevenDays ==
    dates # <<>> =>
        /\ calls[1].fn = "get_last_7_days"
        /\ Len(ClockRead) = 1
        /\ Len(dates) = 7
        /\ dates[1] = ClockRead[1] - 6
        /\ dates[Len(dates)] = ClockRead[1]
        /\ \A i \in 1 .. Len(dates) - 1 : dates[i + 1] = dates[i] + 1

\* the call was made after the clock had moved, and the clock has moved
\* again since
C19_Witness ==
    /\ dates # <<>>
    /\ ClockRead[1] > Day0 + 6
    /\ dates[1] = Day0 + 1
    /\ pc = "request"

\* C20: within one run the window is computed exactly once, and the same
\* (start_date, end_date) pair is given to the provider adapter, to the
\* validator and to the sink (period_start / period_end of the metadata or
\* of the write call), even when the clock moves to the next day between two
\* steps of the run.
C20_OneWindow ==
    /\ Cardinality(Windows) <= 1
    /\ Fetches # {} => Windows = {1}
    /\ \A i \in DOMAIN calls :
          /\ calls[i].start = dates[1]
          /\ calls[i].end = dates[Len(dates)]
    /\ \A f \in files :
          /\ f.period_start = dates[1]
          /\ f.period_end = dates[Len(dates)]
    /\ Fetches # {} => period_start = dates[1] /\ period_end = dates[Len(dates)]

\* a run that wrote its file on the day after the one on which it computed
\* its window
C20_Witness ==
    /\ Exited
    /\ exit_code = <<EXIT_SUCCESS>>
    /\ \E f \in files :
          /\ f.report_date = ClockRead[1] + 1
          /\ f.period_end = ClockRead[1]
    /\ Fetches # {} /\ Validations # {} /\ Writes # {}

----------------------------------------------------------------------------
(* Vocabulary of the properties of the sink *)

StrictlyAscending(recs) ==
    \A i \in 1 .. Len(recs) - 1 : recs[i].date < recs[i + 1].date
\* the step is the writer call of the run
WriteStep == pc = "write" /\ Len(calls') = Len(calls) + 1
LastCall == calls[Len(calls)]

\* C21: the list handed to the sink is exactly the list the densifier
\* returned, with the same records, the same values and the same strictly
\* ascending order: from the return of the densifier on no step of the run
\* changes the list, and the writer call is given that list.
C21_SinkGetsDensifierList ==
    [][/\ pc \in {"densified", "write"} => records' = records
       /\ WriteStep =>
             /\ calls'[Len(calls')].args.records = records
             /\ StrictlyAscending(records)
             /\ \A f \in files' \ files : f.records = records]_vars

C21_Witness ==
    /\ Exited /\ Validations # {} /\ Writes # {}
    /\ LastCall.args.records = records
    /\ Len(records) = 7
    /\ \E f \in files : f.records = records

IsoDate(v) == v.k = "YYYY-MM-DD"

\* C22: the metadata map the cbr pipeline hands to the sink has all four
\* keys report_date, period_start, period_end and data_source, data_source
\* being "CBR" and the other three ISO-8601 date strings, so the sink never
\* raises its ValueError for missing metadata keys in a run.
C22_MetadataComplete ==
    /\ \A i \in CallsOf({"write_exchange_rates"}) :
          LET metadata == calls[i].args.metadata
          IN  /\ missing_keys(metadata) = {}
              /\ DOMAIN metadata = required_keys
              /\ metadata.data_source = "CBR"
              /\ \A key \in required_keys \ {"data_source"} :
                    IsoDate(metadata[key])
              /\ metadata.period_start = isoformat(calls[i].start)
              /\ metadata.period_end = isoformat(calls[i].end)
    /\ error.msg # MSG_MISSING_KEYS

C22_Witness ==
    /\ Exited /\ command = CBR /\ CallsOf({"write_exchange_rates"}) # {}
    /\ \E f \in files :
          /\ f.metadata.data_source = "CBR"
          /\ f.metadata.report_date = isoformat(today)
          /\ f.metadata.period_end = isoformat(dates[7])

\* two files were named by the same writer from the same period, report
\* date and output directory
SameNaming(f, g) ==
    /\ f.path.name[1] = g.path.name[1]
    /\ f.period_start = g.period_start
    /\ f.period_end = g.period_end
    /\ f.report_date = g.report_date
    /\ f.path.dir = g.path.dir
SecondOf(f) == f.at \div TicksPerSecond
\* the timestamp is the eighth part of a file name
SamePathButStamp(f, g) ==
    /\ f.path.dir = g.path.dir
    /\ g.path.name = [f.path.name EXCEPT ![8] = g.path.name[8]]

\* C23 as stated: two writes with the same period_start, period_end,
\* report_date and output directory produce the same path, whatever the time
\* of day of each.
C23_SamePathAnyTime ==
    \A f, g \in files : SameNaming(f, g) => f.path = g.path

\* C23: the file name is a function of the period, the report date and the
\* second of the day of the write: two writes with the same period_start,
\* period_end, report_date and output directory produce the same path exactly
\* when they are made within the same second, and otherwise paths that
\* differ in the HHMMSS timestamp only.
C23_SamePathWithinSecond ==
    \A f, g \in files :
       SameNaming(f, g) =>
          /\ f.path = g.path <=> SecondOf(f) = SecondOf(g)
          /\ SamePathButStamp(f, g)

C23_Witness ==
    /\ pc = "written"
    /\ \E f, g \in files :
          /\ SameNaming(f, g)
          /\ f.at # g.at
          /\ f.path = g.path

----------------------------------------------------------------------------
(* Vocabulary of the properties of the kept rows *)

Densified(parser) == pc = "densified" /\ callee = parser
\* the date an upstream row is of, when its date can be parsed
RowDate(row) ==
    IF callee = CBR_PARSE THEN date_of_dmy(row.Date) ELSE date_of_iso(row.begin)
\* the adapter can parse the row: its date and, for CBR, its value
Parseable(row) ==
    /\ RowDate(row).ok
    /\ callee = CBR_PARSE => float(replace_comma(row.Value)) # Raised
\* the last parseable row of date d in the order of the payload (0: none)
LastOf(d) ==
    LET of == {i \in DOMAIN Rows :
                  Parseable(Rows[i]) /\ RowDate(Rows[i]).date = d}
    IN  IF of = {} THEN 0 ELSE CHOOSE i \in of : \A j \in of : j <= i
\* the record of its date the row spells
Spelled(row) ==
    IF callee = CBR_PARSE
    THEN ExchangeRateRecord(RowDate(row).date,
                            float(replace_comma(row.Value)), RUB_USD)
    ELSE CandleRecord(RowDate(row).date, row.cells.open, row.cells.high,
                      row.cells.low, row.cells.close, row.cells.volume,
                      LQDT, TQTF)
NullRecord(d) ==
    IF callee = CBR_PARSE
    THEN ExchangeRateRecord(d, None, RUB_USD)
    ELSE CandleRecord(d, None, None, None, None, None, LQDT, TQTF)

\* C24: when the upstream payload has several entries of one calendar date,
\* the record of that date carries the value(s) of the last parseable entry
\* in the order of the payload, and the output has exactly one record per
\* date of the range.
C24_LastWins ==
    pc = "densified" =>
       /\ OnePerDate(records)
       /\ \A i \in DOMAIN records :
             LET d == records[i].date
             IN  records[i] = IF LastOf(d) = 0 THEN NullRecord(d)
                              ELSE Spelled(Rows[LastOf(d)])

C24_Witness ==
    /\ pc = "densified"
    /\ \E i, j \in DOMAIN Rows :
          /\ i < j
          /\ Parseable(Rows[i]) /\ Parseable(Rows[j])
          /\ RowDate(Rows[i]).date = RowDate(Rows[j]).date
          /\ RowDate(Rows[i]).date \in Period
          /\ Spelled(Rows[i]) # Spelled(Rows[j])
          /\ \E k \in DOMAIN records : records[k] = Spelled(Rows[j])

\* the row has a parseable date outside the requested range
OutOfRange(row) == RowDate(row).ok /\ RowDate(row).date \notin Period
InRange(row) == ~OutOfRange(row)
\* the payload without its out-of-range rows
RowsInRange == SelectSeq(Rows, InRange)
\* what the adapter does with a list of rows: the exception raised (NoError:
\* none) and the list returned
RECURSIVE CbrParsed(_, _)
CbrParsed(api, rows) ==
    IF rows = <<>> THEN api
    ELSE CbrParsed(CbrRecord(api, Head(rows)).api, Tail(rows))
RECURSIVE MoexParsed(_, _)
MoexParsed(by_date, rows) ==
    IF rows = <<>> THEN [raised |-> NoError, by_date |-> by_date]
    ELSE LET r == MoexRow(by_date, payload.columns, Head(rows),
                          period_start, period_end)
         IN  IF r.raised # NoError
             THEN [raised |-> r.raised, by_date |-> by_date]
             ELSE MoexParsed(r.by_date, Tail(rows))
Outcome(rows) ==
    IF callee = CBR_PARSE
    THEN [raised |-> NoError,
          records |-> FillRates(CbrParsed(<<>>, rows), period_start,
                                period_end)]
    ELSE LET parsed == MoexParsed(<<>>, rows)
         IN  [raised |-> parsed.raised,
              records |-> IF parsed.raised # NoError THEN <<>>
                          ELSE FillCandles(parsed.by_date, period_start,
                                           period_end)]

\* C25: an upstream entry whose date parses but lies outside [start, end] is
\* inert, whatever its values or board: the call ends as it ends on the
\* payload without such entries, with the same record list (no extra
\* record, hence the same validation verdict) or the same error, and an
\* entry of this kind is never the one that raises.
C25_OutOfRangeInert ==
    /\ pc \in {"densified", "raised"} =>
          /\ error = Outcome(RowsInRange).raised
          /\ records = Outcome(RowsInRange).records
    /\ pc = "densified" =>
          /\ DateSet(records) = Period
          /\ Len(records) = PeriodDays
    /\ pc = "raised" => /\ taken > 0
                        /\ ~OutOfRange(Rows[taken])

C25_Witness ==
    /\ pc = "densified"
    /\ \E i \in DOMAIN Rows :
          /\ OutOfRange(Rows[i])
          /\ callee = MOEX_PARSE =>
                Rows[i].boardid # TQTF \/ Rows[i].cells.close = Num(-1)
          /\ callee = CBR_PARSE => Rows[i].Value = Str(0)
    /\ \E j \in DOMAIN Rows : Parseable(Rows[j]) /\ InRange(Rows[j])
    /\ Len(records) = PeriodDays

----------------------------------------------------------------------------
(* Properties of the validators, continued *)

\* C26: once the earlier checks pass the final comparison of the dates seen
\* with the expected dates cannot fail: validate_candles, for start <= end,
\* and validate_records, for period_end = period_start + 6, never return
\* "Missing dates in records".
C26_NoMissingDates ==
    /\ Validated("validate_candles") /\ period_start <= period_end
          => result.reason.msg # "Missing dates in records: {}"
    /\ Validated("validate_records") /\ period_end = period_start + 6
          => result.reason.msg # "Missing dates in records: {}"
    /\ pc = "validated" /\ result.reason.msg = "Missing dates in records: {}"
          => /\ callee = "validate_records"
             /\ period_end # period_start + 6
             /\ Len(records) = 7

C26_Witness ==
    /\ pc = "validated"
    /\ callee = "validate_candles" \/ period_end = period_start + 6
    /\ Len(records) = PeriodDays /\ Len(records) > 1
    /\ Distinct(records) /\ InPeriod(records)
    /\ DateSet(records) = Period
    /\ result = Ok

----------------------------------------------------------------------------
(* Properties of a run, continued *)

NonPositiveOrNaN(v) ==
    \/ v = NaN
    \/ v = NegInf
    \/ v.k = "num" /\ v.n <= 0
\* the list has the structure both validators ask for, for the window
Structured(recs) ==
    /\ Len(recs) = 7
    /\ \A i \in DOMAIN recs :
          /\ recs[i].date = dates[1] + (i - 1)
          /\ IF command = CBR THEN recs[i].currency_pair = RUB_USD
             ELSE recs[i].instrument = LQDT /\ recs[i].board = TQTF
    /\ dates[7] = dates[1] + 6

\* C27: in a run the list the densifier returns for the 7-day window meets
\* every structural rule of the validator (count, dates in the period, no
\* duplicate, tags, full set of dates), so the validator can fail only on a
\* value: a non-positive or NaN rate in the cbr pipeline, a NaN field in the
\* moex-lqdt pipeline.
C27_OnlyValueRulesFail ==
    /\ Validations # {} => Structured(records)
    /\ ValidationFailed =>
          IF command = CBR
          THEN /\ result.reason.msg =
                     "Invalid exchange rate value for date {}: {}"
               /\ NonPositiveOrNaN(result.reason.value)
               /\ \E i \in DOMAIN records :
                     /\ records[i].exchange_rate_value = result.reason.value
                     /\ <<records[i].date>> = result.reason.dates
          ELSE /\ result.reason.msg = "Invalid {} value for date {}: {}"
               /\ result.reason.value = NaN
               /\ \E i \in DOMAIN records :
                     /\ records[i][result.reason.name] = NaN
                     /\ <<records[i].date>> = result.reason.dates

C27_Witness ==
    /\ Exited /\ ValidationFailed /\ command = MOEX_LQDT
    /\ Structured(records)
    /\ result.reason.value = NaN
    /\ ExitCode = EXIT_VALIDATION_ERROR

NegativeField(v) == v = NegInf \/ (v.k = "num" /\ v.n < 0)
\* the adapter raised for a negative number
NegativeRejected ==
    /\ error.exc = "MoexClientError"
    /\ \E v \in Values : NegativeField(v) /\ error.msg = MSG_NEGATIVE(v)

\* C28: in the moex-lqdt pipeline a negative open, high, low, close or
\* volume of an in-range row makes the adapter raise MoexClientError:
\* validate_candles is never called with a negative field in a run, and the
\* run in which the adapter raised for it makes no validator call, writes no
\* file and ends with a provider-error exit code, never with
\* EXIT_VALIDATION_ERROR.
C28_NegativeNeverValidated ==
    /\ command = MOEX_LQDT /\ Validations # {} =>
          \A i \in DOMAIN records : \A f \in DOMAIN FieldNames :
             ~NegativeField(records[i][FieldNames[f]])
    /\ command = MOEX_LQDT /\ NegativeRejected =>
          /\ Validations = {} /\ Writes = {} /\ files = {}
          /\ records = <<>>
          /\ Exited =>
                /\ ExitCode \in {EXIT_API_ERROR, EXIT_NETWORK_ERROR,
                                 EXIT_INVALID_DATA}
                /\ ExitCode # EXIT_VALIDATION_ERROR

C28_Witness ==
    /\ Exited /\ command = MOEX_LQDT
    /\ NegativeRejected
    /\ Fetches # {} /\ Validations = {}
    /\ ExitCode = EXIT_API_ERROR

\* the place of a name in ("open", "high", "low", "close", "volume")
FieldIndex(name) == CHOOSE f \in DOMAIN FieldNames : FieldNames[f] = name
\* the per-record checks in the order of the claim, numbered from 1:
\* validate_records: date in period, duplicate, value, tag;
\* validate_candles: date in period, duplicate, instrument, board, then the
\* five fields
CheckReported(res) ==
    CASE res.reason.msg
           = "Date {} is outside the expected period [{}, {}]" -> 1
      [] res.reason.msg = "Duplicate date found: {}" -> 2
      [] res.reason.msg = "Invalid exchange rate value for date {}: {}" -> 3
      [] res.reason.msg = "Invalid currency pair: {}, expected RUB/USD" -> 4
      [] res.reason.msg = "Invalid instrument: {}" -> 3
      [] res.reason.msg = "Invalid board: {}" -> 4
      [] res.reason.msg = "Invalid {} value for date {}: {}"
           -> 4 + FieldIndex(res.reason.name)
      [] OTHER -> 0
ChecksFailed(recs, i) ==
    {r \in {1} : recs[i].date \notin Period}
    \cup {r \in {2} : \E j \in 1 .. i - 1 : recs[j].date = recs[i].date}
    \cup IF callee = "validate_records"
         THEN {r \in 3 .. 4 :
                  CASE r = 3 -> ~validate_rate(recs[i].exchange_rate_value)
                    [] r = 4 -> recs[i].currency_pair # RUB_USD}
         ELSE {r \in 3 .. 4 + Len(FieldNames) :
                  CASE r = 3 -> recs[i].instrument # LQDT
                    [] r = 4 -> recs[i].board # TQTF
                    [] OTHER ->
                         LET value == recs[i][FieldNames[r - 4]]
                         IN  /\ value # None
                             /\ ~_is_non_negative_number(value)}
Failing(recs) == {i \in DOMAIN recs : ChecksFailed(recs, i) # {}}
\* the reason speaks of this record
ReasonOf(res, record) ==
    CASE res.reason.msg \in {"Invalid currency pair: {}, expected RUB/USD"}
           -> res.reason.name = record.currency_pair
      [] res.reason.msg = "Invalid instrument: {}"
           -> res.reason.name = record.instrument
      [] res.reason.msg = "Invalid board: {}"
           -> res.reason.name = record.board
      [] res.reason.msg = "Invalid {} value for date {}: {}"
           -> /\ res.reason.dates = <<record.date>>
              /\ res.reason.value = record[res.reason.name]
      [] res.reason.msg = "Invalid exchange rate value for date {}: {}"
           -> /\ res.reason.dates = <<record.date>>
              /\ res.reason.value = record.exchange_rate_value
      [] OTHER -> res.reason.dates # <<>> /\ res.reason.dates[1] = record.date
CountPassed ==
    IF callee = "validate_records" THEN Len(records) = 7
    ELSE period_start <= period_end /\ Len(records) = PeriodDays

\* C29: after the count check both validators check record by record in
\* list order: the reason returned belongs to the first record of the list
\* that fails any per-record check, and it is the first check that record
\* fails in the order date in period, duplicate date, value, tag
\* (validate_records) or date in period, duplicate date, instrument, board,
\* open, high, low, close, volume (validate_candles); when no record fails
\* a check no per-record reason is returned.
C29_FirstRecordFirstCheck ==
    pc = "validated" /\ CountPassed =>
       IF Failing(records) = {} THEN CheckReported(result) = 0
       ELSE LET i == Lowest(Failing(records))
            IN  /\ ~result.ok
                /\ CheckReported(result) = Lowest(ChecksFailed(records, i))
                /\ ReasonOf(result, records[i])

\* an earlier record with a foreign board, a later one that fails a check
\* which comes before that of the board
C29_Witness ==
    /\ Validated("validate_candles") /\ CountPassed
    /\ \E i, j \in DOMAIN records :
          /\ i < j
          /\ Failing(records) = {i, j}
          /\ 4 \in ChecksFailed(records, i)
          /\ Cardinality(ChecksFailed(records, i) \cup
                         ChecksFailed(records, j)) > 1
          /\ Lowest(ChecksFailed(records, j)) < 4
    /\ CheckReported(result) = 4

\* what the validator under way says of a list
Verdict(recs) ==
    IF callee = "validate_records"
    THEN validate_records(recs, period_start, period_end).ok
    ELSE validate_candles(recs, period_start, period_end).ok
Transposed(recs, i, j) == [recs EXCEPT ![i] = recs[j], ![j] = recs[i]]
Reversed(recs) == [i \in 1 .. Len(recs) |-> recs[Len(recs) + 1 - i]]
\* the record passes the checks that look at it alone
ValidAlone(record) ==
    /\ record.date \in Period
    /\ IF callee = "validate_records"
       THEN /\ validate_rate(record.exchange_rate_value)
            /\ record.currency_pair = RUB_USD
       ELSE /\ record.instrument = LQDT /\ record.board = TQTF
            /\ \A f \in DOMAIN FieldNames :
                  \/ record[FieldNames[f]] = None
                  \/ _is_non_negative_number(record[FieldNames[f]])
\* acceptance told without the order of the list: the number of records,
\* each record alone, and the set of their dates
AcceptedUnordered(recs) ==
    /\ IF callee = "validate_records" THEN Len(recs) = 7
       ELSE period_start <= period_end /\ Len(recs) = PeriodDays
    /\ \A i \in DOMAIN recs : ValidAlone(recs[i])
    /\ Cardinality(DateSet(recs)) = Len(recs)
    /\ DateSet(recs) =
          IF callee = "validate_records"
          THEN period_start .. period_start + 6
          ELSE Period

\* C30: neither validator checks the order of the records: the ok verdict
\* depends on the number of records, on each record alone and on the set of
\* their dates, it is the same for the list with any two records exchanged
\* and for the list reversed, and a list that covers the window with valid
\* values and tags in a non-ascending order is accepted with (True, None).
C30_OrderIgnored ==
    pc = "validated" =>
       /\ result.ok = AcceptedUnordered(records)
       /\ result.ok => result = Ok
       /\ \A i, j \in DOMAIN records :
             Verdict(Transposed(records, i, j)) = result.ok
       /\ Verdict(Reversed(records)) = result.ok

C30_Witness ==
    /\ pc = "validated"
    /\ result = Ok
    /\ \E i \in DOMAIN records :
          i < Len(records) /\ records[i].date > records[i + 1].date
    /\ ~StrictlyAscending(records)
    /\ Verdict(Reversed(records))

=============================================================================
